---- MODULE Spec2Model ----
(***************************************************************************)
(* GayScript subsystem of GayEngine.py: the line-oriented parser           *)
(* (load_script / parse_script_line), the object resolver, the condition   *)
(* evaluator, the tree-walking executor and the scene serializer, together *)
(* with the editor handlers that drive them.                               *)
(*                                                                         *)
(* Texts are TLA+ strings handled character by character, as the Python    *)
(* code handles them.  Numbers produced by float() are kept in hundredths  *)
(* (5.0 is 500); int() results are plain integers.                         *)
(***************************************************************************)
EXTENDS Integers, Sequences, FiniteSets, TLC

\* a local variable: value is computed once and Body reads it by name
Bind(value, Body(_)) == Body(value)

(***************************************************************************)
(* Python string built-ins used by the interpreter                         *)
(***************************************************************************)

\* whitespace removed by str.strip()
IsSpace(c) == c \in {" ", "\t", "\n", "\r"}

RECURSIVE LStrip(_)
LStrip(s) ==
  IF Len(s) > 0 /\ IsSpace(SubSeq(s, 1, 1)) THEN LStrip(SubSeq(s, 2, Len(s))) ELSE s

RECURSIVE RStrip(_)
RStrip(s) ==
  IF Len(s) > 0 /\ IsSpace(SubSeq(s, Len(s), Len(s)))
  THEN RStrip(SubSeq(s, 1, Len(s) - 1)) ELSE s

\* str.strip()
Strip(s) == RStrip(LStrip(s))

\* str.startswith(p)
StartsWith(s, p) == Len(s) >= Len(p) /\ SubSeq(s, 1, Len(p)) = p

\* str.find(p, from): first index >= from at which p occurs, 0 when it does not
Find(s, p, from) ==
  LET hits == {i \in from..(Len(s) - Len(p) + 1) : SubSeq(s, i, i + Len(p) - 1) = p} IN
  IF hits = {} THEN 0 ELSE CHOOSE i \in hits : \A j \in hits : i <= j

\* `p in s`
Contains(s, p) == Find(s, p, 1) # 0

\* str.split(sep): every occurrence of sep, left to right, cuts the text
RECURSIVE Split(_, _)
Split(s, sep) ==
  LET i == Find(s, sep, 1) IN
  IF i = 0 THEN <<s>>
  ELSE <<SubSeq(s, 1, i - 1)>> \o Split(SubSeq(s, i + Len(sep), Len(s)), sep)

\* str.split(sep, 1): only the first occurrence cuts
SplitOnce(s, sep) ==
  LET i == Find(s, sep, 1) IN
  IF i = 0 THEN <<s>>
  ELSE <<SubSeq(s, 1, i - 1), SubSeq(s, i + Len(sep), Len(s))>>

\* str.split(): cut at runs of whitespace, no empty pieces
RECURSIVE SplitWs(_)
SplitWs(s) ==
  LET t == LStrip(s) IN
  IF Len(t) = 0 THEN <<>>
  ELSE LET sp == CHOOSE k \in 1..(Len(t) + 1) :
                   /\ (k = Len(t) + 1 \/ IsSpace(SubSeq(t, k, k)))
                   /\ \A j \in 1..(k - 1) : ~IsSpace(SubSeq(t, j, j))
       IN <<SubSeq(t, 1, sp - 1)>> \o SplitWs(SubSeq(t, sp, Len(t)))

\* str.replace(old, new): every non-overlapping occurrence, left to right
RECURSIVE Replace(_, _, _)
Replace(s, old, new) ==
  LET i == Find(s, old, 1) IN
  IF i = 0 THEN s
  ELSE SubSeq(s, 1, i - 1) \o new \o Replace(SubSeq(s, i + Len(old), Len(s)), old, new)

UpperLetters == "ABCDEFGHIJKLMNOPQRSTUVWXYZ"
LowerLetters == "abcdefghijklmnopqrstuvwxyz"

\* str.lower()
RECURSIVE Lower(_)
Lower(s) ==
  IF Len(s) = 0 THEN ""
  ELSE LET c == SubSeq(s, 1, 1)
           k == Find(UpperLetters, c, 1)
       IN (IF k = 0 THEN c ELSE SubSeq(LowerLetters, k, k)) \o Lower(SubSeq(s, 2, Len(s)))

(***************************************************************************)
(* Python number conversions                                               *)
(***************************************************************************)

Digits == "0123456789"
HexDigits == "0123456789abcdef"

IsDigit(c) == Find(Digits, c, 1) # 0

\* a non-empty run of decimal digits
IsDigits(s) == Len(s) > 0 /\ \A k \in 1..Len(s) : IsDigit(SubSeq(s, k, k))

RECURSIVE NatVal(_)
NatVal(s) ==
  IF Len(s) = 0 THEN 0
  ELSE 10 * NatVal(SubSeq(s, 1, Len(s) - 1)) + (Find(Digits, SubSeq(s, Len(s), Len(s)), 1) - 1)

HasSign(t) == Len(t) > 0 /\ SubSeq(t, 1, 1) \in {"+", "-"}
Unsigned(t) == IF HasSign(t) THEN SubSeq(t, 2, Len(t)) ELSE t
SignOf(t) == IF Len(t) > 0 /\ SubSeq(t, 1, 1) = "-" THEN -1 ELSE 1

\* int(text): surrounding whitespace dropped, optional sign, decimal digits;
\* anything else raises ValueError (ok = FALSE)
PyInt(s) ==
  Bind(Strip(s), LAMBDA t :
    Bind(Unsigned(t), LAMBDA u :
      IF IsDigits(u) THEN [ok |-> TRUE, n |-> SignOf(t) * NatVal(u)]
      ELSE [ok |-> FALSE, n |-> 0]))

\* float(text), in hundredths: optional sign, digits with an optional
\* fraction; anything else raises ValueError (ok = FALSE).  The texts the
\* model feeds it carry at most two decimals.
PyFloat(s) ==
  Bind(Strip(s), LAMBDA t :
    Bind(SplitOnce(Unsigned(t), "."), LAMBDA parts :
      LET ip == parts[1]
          fp == IF Len(parts) = 2 THEN parts[2] ELSE ""
          wellFormed == /\ (ip = "" \/ IsDigits(ip))
                        /\ (fp = "" \/ IsDigits(fp))
                        /\ (ip # "" \/ fp # "")
          fp2 == SubSeq(fp \o "00", 1, 2)
      IN IF wellFormed
         THEN [ok |-> TRUE, n |-> SignOf(t) * (100 * NatVal(ip) + NatVal(fp2))]
         ELSE [ok |-> FALSE, n |-> 0]))

RECURSIVE HexOf(_)
HexOf(n) ==
  IF n < 16 THEN SubSeq(HexDigits, n + 1, n + 1)
  ELSE HexOf(n \div 16) \o SubSeq(HexDigits, (n % 16) + 1, (n % 16) + 1)

\* format(n, '02x'): lower-case hex, zero-padded to width 2, sign included
Hex02(n) ==
  IF n < 0 THEN "-" \o HexOf(-n)
  ELSE IF n < 16 THEN "0" \o HexOf(n)
  ELSE HexOf(n)

(***************************************************************************)
(* GayScriptInterpreter.parse_value                                        *)
(***************************************************************************)

RECURSIVE StripAll(_)
StripAll(seq) ==
  IF seq = <<>> THEN <<>> ELSE <<Strip(Head(seq))>> \o StripAll(Tail(seq))

\* true and false recognised in lower case only
parse_value_exact_case(value_str) ==
  Bind(Strip(value_str), LAMBDA v :
    IF Contains(v, ",") THEN [kind |-> "list", items |-> StripAll(Split(v, ","))]
    ELSE IF v = "true" THEN [kind |-> "bool", b |-> TRUE]
    ELSE IF v = "false" THEN [kind |-> "bool", b |-> FALSE]
    ELSE Bind(PyFloat(v), LAMBDA number :
      IF number.ok THEN [kind |-> "num", n |-> number.n]
      ELSE [kind |-> "str", s |-> v]))

\* the typed value of a raw text: list of texts / bool / number / text
parse_value(value_str) ==
  Bind(Strip(value_str), LAMBDA v :
    IF Contains(v, ",") THEN [kind |-> "list", items |-> StripAll(Split(v, ","))]
    ELSE Bind(Lower(v), LAMBDA lowered :
      IF lowered = "true" THEN [kind |-> "bool", b |-> TRUE]
      ELSE IF lowered = "false" THEN [kind |-> "bool", b |-> FALSE]
      ELSE Bind(PyFloat(v), LAMBDA number :
        IF number.ok THEN [kind |-> "num", n |-> number.n]
        ELSE [kind |-> "str", s |-> v])))

\* float(parsed_value): TypeError on a list, ValueError on a text
FloatOf(pv) ==
  IF pv.kind = "num" THEN [ok |-> TRUE, n |-> pv.n]
  ELSE IF pv.kind = "bool" THEN [ok |-> TRUE, n |-> IF pv.b THEN 100 ELSE 0]
  ELSE [ok |-> FALSE, n |-> 0]

\* bool(parsed_value): truthiness of the typed value
BoolOf(pv) ==
  IF pv.kind = "bool" THEN pv.b
  ELSE IF pv.kind = "num" THEN pv.n # 0
  ELSE IF pv.kind = "str" THEN pv.s # ""
  ELSE TRUE

(***************************************************************************)
(* The statement tree under construction.  The Python code keeps           *)
(* references to the open conditionals in if_stack and appends to them in  *)
(* place; here if_stack is the path of (branch, index) steps from the      *)
(* document root to each open conditional.                                 *)
(***************************************************************************)

ActiveBranch(node) == IF node.in_else THEN "else_branch" ELSE "then_branch"

\* the conditional on top of if_stack
RECURSIVE NodeAt(_, _)
NodeAt(lines, path) ==
  LET node == lines[path[1].idx] IN
  IF Len(path) = 1 THEN node ELSE NodeAt(node[path[2].br], Tail(path))

\* every statement put in a then-branch, whether or not else was seen
RECURSIVE AppendToThen(_, _, _)
AppendToThen(lines, path, stmt) ==
  IF path = <<>> THEN Append(lines, stmt)
  ELSE LET i == path[1].idx
           node == lines[i]
       IN IF Len(path) = 1
          THEN [lines EXCEPT ![i] =
                  [node EXCEPT !.then_branch = Append(node.then_branch, stmt)]]
          ELSE [lines EXCEPT ![i] =
                  [node EXCEPT ![path[2].br] = AppendToThen(node[path[2].br], Tail(path), stmt)]]

\* parent_if[branch].append(stmt) / script_data['lines'].append(stmt)
RECURSIVE AppendStmt(_, _, _)
AppendStmt(lines, path, stmt) ==
  IF path = <<>> THEN Append(lines, stmt)
  ELSE LET i == path[1].idx
           node == lines[i]
       IN IF Len(path) = 1
          THEN [lines EXCEPT ![i] =
                  [node EXCEPT ![ActiveBranch(node)] = Append(node[ActiveBranch(node)], stmt)]]
          ELSE [lines EXCEPT ![i] =
                  [node EXCEPT ![path[2].br] = AppendStmt(node[path[2].br], Tail(path), stmt)]]

\* if_stack[-1]['in_else'] = True
RECURSIVE SetInElse(_, _)
SetInElse(lines, path) ==
  LET i == path[1].idx
      node == lines[i]
  IN IF Len(path) = 1
     THEN [lines EXCEPT ![i] = [node EXCEPT !.in_else = TRUE]]
     ELSE [lines EXCEPT ![i] =
             [node EXCEPT ![path[2].br] = SetInElse(node[path[2].br], Tail(path))]]

\* where the next statement lands: (branch, index) of the slot it will take
NextSlot(lines, path) ==
  IF path = <<>> THEN [br |-> "lines", idx |-> Len(lines) + 1]
  ELSE LET top == NodeAt(lines, path) IN
       [br |-> ActiveBranch(top), idx |-> Len(top[ActiveBranch(top)]) + 1]

(***************************************************************************)
(* GayScriptInterpreter.parse_script_line                                  *)
(***************************************************************************)

\* the label-driven default of a new field
\* the heuristic with its tests in the opposite order
SeedRotationFirst(field_label) ==
  IF Contains(field_label, "Rotation") THEN "2"
  ELSE IF Contains(field_label, "Jump") THEN "10"
  ELSE IF Contains(field_label, "Speed") THEN "5"
  ELSE ""

SeedInitialValue(field_label) ==
  IF Contains(field_label, "Speed") THEN "5"
  ELSE IF Contains(field_label, "Jump") THEN "10"
  ELSE IF Contains(field_label, "Rotation") THEN "2"
  ELSE ""

\* re.match(r'line "([^"]+)"', line): the label, "" when there is no match
FieldLabelOf(line) ==
  Bind(SubSeq(line, 7, Len(line)), LAMBDA rest :
    Bind(Find(rest, "\"", 1), LAMBDA q :
      IF q >= 2 THEN SubSeq(rest, 1, q - 1) ELSE ""))

\* ids counted from the fields already declared, the first being line_0
FieldIdFromZero(defs) == "line_" \o ToString(Len(defs))

\* field_id = f"line_{len(script_data['line_definitions']) + 1}"
FieldId(defs) == "line_" \o ToString(Len(defs) + 1)

\* the field declared first instead of the one declared last
FirstFieldId(defs) == defs[1].id

\* last_field_id = list(script_data['line_definitions'].keys())[-1]
LastFieldId(defs) == defs[Len(defs)].id

\* line_definitions with a key of the last field changed
SetLast(defs, key, val) == [defs EXCEPT ![Len(defs)] = [defs[Len(defs)] EXCEPT ![key] = val]]

\* ps is the parser state of load_script: the document being built
\* (script_data), current_section and if_stack
parse_script_line(raw, ps) ==
  Bind(Strip(raw), LAMBDA line :
  LET sd == ps.script_data
      defs == sd.line_definitions
      put(stmt) == [ps EXCEPT !.script_data.lines = AppendStmt(sd.lines, ps.if_stack, stmt)]
  IN
  IF StartsWith(line, "if ") THEN
       LET if_data == [type |-> "if_condition",
                       condition |-> Strip(Replace(line, "if ", "")),
                       then_branch |-> <<>>, else_branch |-> <<>>, in_else |-> FALSE]
           slot == NextSlot(sd.lines, ps.if_stack)
       IN [put(if_data) EXCEPT !.if_stack = Append(ps.if_stack, slot)]
  ELSE IF line = "else" THEN
       IF ps.if_stack # <<>>
       THEN [ps EXCEPT !.script_data.lines = SetInElse(sd.lines, ps.if_stack)]
       ELSE ps
  ELSE IF StartsWith(line, "line \"") THEN
       Bind(FieldLabelOf(line), LAMBDA field_label :
         IF field_label # ""
         THEN [ps EXCEPT !.script_data.line_definitions =
                 Append(defs, [id |-> FieldId(defs),
                               label |-> field_label,
                               value |-> "",
                               type |-> "input_field",
                               initial_value |-> SeedInitialValue(field_label),
                               target_property |-> ""])]
         ELSE ps)
  ELSE IF StartsWith(line, "line.ask") THEN
       Bind(SplitWs(line), LAMBDA parts :
         IF Len(parts) >= 2 /\ defs # <<>>
         THEN [ps EXCEPT !.script_data.line_definitions =
                 SetLast(defs, "target_property", parts[2])]
         ELSE ps)
  ELSE IF Contains(line, "= [line]") THEN
       IF defs # <<>>
       THEN put([type |-> "assignment",
                 property |-> Strip(Split(line, "=")[1]),
                 source |-> LastFieldId(defs),
                 original_line |-> line])
       ELSE ps
  ELSE IF Contains(line, "=") /\ ~Contains(line, "[line]") THEN
       Bind(SplitOnce(line, "="), LAMBDA lr :
       Bind(Strip(lr[1]), LAMBDA left :
       Bind(Strip(lr[2]), LAMBDA right :
         LET seeded == IF defs # <<>> /\ right # ""
                       THEN [ps EXCEPT !.script_data.line_definitions =
                               SetLast(defs, "initial_value", right)]
                       ELSE ps
         IN [seeded EXCEPT !.script_data.lines =
               AppendStmt(sd.lines, ps.if_stack,
                          [type |-> "direct_assignment", property |-> left,
                           value |-> right, original_line |-> line])])))
  ELSE put([type |-> "command", command |-> line, original_line |-> line]))

(***************************************************************************)
(* GayScriptInterpreter.load_script                                        *)
(***************************************************************************)

\* script_data and the loop variables before the first line
NewParseState(script_content, script_name) ==
  [script_data |-> [name |-> script_name,
                    content |-> script_content,
                    lines |-> <<>>,
                    target_objects |-> <<>>,
                    parsed |-> FALSE,
                    line_definitions |-> <<>>,
                    using_objects |-> {}],
   current_section |-> "None",
   if_stack |-> <<>>]

\* one pass of the `for line_num, line in enumerate(lines)` loop
LoadLine(raw, ps) ==
  Bind(Strip(raw), LAMBDA line :
  IF line = "" \/ StartsWith(line, "#") THEN ps
  ELSE IF line = "GameScript" THEN [ps EXCEPT !.current_section = "header"]
  ELSE IF StartsWith(line, "Working") THEN
       IF ps.current_section \in {"header", "body"}
       THEN [ps EXCEPT !.script_data.target_objects =
                         Append(@, Strip(Replace(line, "Working", ""))),
                       !.current_section = "body"]
       ELSE ps
  ELSE IF StartsWith(line, "using") THEN
       [ps EXCEPT !.script_data.using_objects =
                    @ \cup {Strip(Replace(Split(line, ":")[1], "using", ""))}]
  ELSE IF line = "{" THEN ps
  ELSE IF line = "}" THEN
       IF ps.if_stack # <<>>
       THEN [ps EXCEPT !.if_stack = SubSeq(@, 1, Len(@) - 1)]
       ELSE ps
  ELSE IF ps.current_section = "body" THEN parse_script_line(line, ps)
  ELSE ps)

RECURSIVE LoadLines(_, _)
LoadLines(rawLines, ps) ==
  IF rawLines = <<>> THEN ps
  ELSE Bind(LoadLine(Head(rawLines), ps), LAMBDA next :
         \* parsed is set only after the loop
         IF next.script_data.parsed THEN next
         ELSE LoadLines(Tail(rawLines), next))

\* the document load_script appends to self.scripts (it returns True for
\* every text: no statement of the loop can raise)
load_script(script_content, script_name) ==
  LET ps == LoadLines(Split(script_content, "\n"), NewParseState(script_content, script_name))
  IN [ps.script_data EXCEPT !.parsed = TRUE]

(***************************************************************************)
(* The world: engine.objects (GameObject list) and engine.player (the      *)
(* Player singleton, present or None).  An object handle is 0 for the      *)
(* singleton, i >= 1 for engine.objects[i], NoObject for None.             *)
(* Lengths are in hundredths.                                              *)
(***************************************************************************)

NoObject == -1
PlayerHandle == 0

\* engine.player = None
NoPlayer == [exists |-> FALSE]

\* Player(): the singleton with its constructor defaults
NewPlayer ==
  [exists |-> TRUE, name |-> "Player", is_player |-> TRUE,
   position |-> <<0, 0, 0>>, rotation |-> <<0, 0, 0>>, scale |-> <<100, 100, 100>>,
   move_speed |-> 130, jump_force |-> 230, rotation_speed |-> 500, spin_speed |-> 200,
   collision_enabled |-> TRUE, color |-> "", visual_object |-> NoObject]

\* GameObject(name) placed by the editor or read from a scene file
GameObject(name, position, scale, color, is_player) ==
  [name |-> name, is_player |-> is_player,
   position |-> position, rotation |-> <<0, 0, 0>>, scale |-> scale,
   color |-> color, collision_enabled |-> TRUE]

\* abs(max - min) of collision_box, per axis: Player (-0.4,0,-0.4)..(0.4,2,0.4),
\* GameObject (-0.5,-0.5,-0.5)..(0.5,0.5,0.5)
PlayerExtent == <<80, 200, 80>>
ObjectExtent == <<100, 100, 100>>

\* a world is [objects |-> ..., player |-> ...]
ObjOf(w, h) == IF h = PlayerHandle THEN w.player ELSE w.objects[h]
ExtentOf(h) == IF h = PlayerHandle THEN PlayerExtent ELSE ObjectExtent

\* CollisionBox.get_transformed(...).intersects(...): boxes centred on the
\* positions with half size extent * 0.5 * scale, compared with <= on each
\* axis (both sides multiplied by 200 to stay in integers)
BoxesIntersect(ext1, pos1, scale1, ext2, pos2, scale2) ==
  \A a \in 1..3 :
    /\ 200 * pos1[a] - ext1[a] * scale1[a] <= 200 * pos2[a] + ext2[a] * scale2[a]
    /\ 200 * pos1[a] + ext1[a] * scale1[a] >= 200 * pos2[a] - ext2[a] * scale2[a]

Intersects(w, h1, h2) ==
  BoxesIntersect(ExtentOf(h1), ObjOf(w, h1).position, ObjOf(w, h1).scale,
                 ExtentOf(h2), ObjOf(w, h2).position, ObjOf(w, h2).scale)

(***************************************************************************)
(* GayScriptInterpreter.find_object_by_path                                *)
(***************************************************************************)

\* the first object of engine.objects named n, NoObject when there is none
FirstNamed(objs, n) ==
  IF \E i \in 1..Len(objs) : objs[i].name = n
  THEN CHOOSE i \in 1..Len(objs) :
         objs[i].name = n /\ \A j \in 1..(i - 1) : objs[j].name # n
  ELSE NoObject

find_object_by_path(w, path) ==
  IF path = "" THEN NoObject
  ELSE Bind(Replace(path, "Hierarchy.", ""), LAMBDA clean_path :
         IF clean_path = "Player" /\ w.player.exists THEN PlayerHandle
         ELSE FirstNamed(w.objects, clean_path))

(***************************************************************************)
(* GayScriptInterpreter.evaluate_condition                                 *)
(***************************************************************************)

\* the evaluator without the two collision_enabled tests
evaluate_condition_unflagged(w, condition) ==
  IF ~Contains(condition, "Colision ==") THEN FALSE
  ELSE Bind(Split(condition, " Colision == "), LAMBDA parts :
    IF Len(parts) # 2 THEN FALSE
    ELSE Bind(Strip(parts[1]), LAMBDA left :
      LET obj1_name == IF Contains(left, ".") THEN Strip(Split(left, ".")[1]) ELSE left
          obj2_name == Strip(parts[2])
      IN Bind(find_object_by_path(w, "Hierarchy." \o obj1_name), LAMBDA obj1 :
         Bind(find_object_by_path(w, "Hierarchy." \o obj2_name), LAMBDA obj2 :
           /\ obj1 # NoObject
           /\ obj2 # NoObject
           /\ Intersects(w, obj1, obj2)))))

evaluate_condition(w, condition) ==
  IF ~Contains(condition, "Colision ==") THEN FALSE
  ELSE Bind(Split(condition, " Colision == "), LAMBDA parts :
    IF Len(parts) # 2 THEN FALSE
    ELSE Bind(Strip(parts[1]), LAMBDA left :
      LET obj1_name == IF Contains(left, ".") THEN Strip(Split(left, ".")[1]) ELSE left
          obj2_name == Strip(parts[2])
      IN Bind(find_object_by_path(w, "Hierarchy." \o obj1_name), LAMBDA obj1 :
         Bind(find_object_by_path(w, "Hierarchy." \o obj2_name), LAMBDA obj2 :
           /\ obj1 # NoObject
           /\ obj2 # NoObject
           /\ ObjOf(w, obj1).collision_enabled
           /\ ObjOf(w, obj2).collision_enabled
           /\ Intersects(w, obj1, obj2)))))

(***************************************************************************)
(* Property setters.  The execution state st carries the world             *)
(* (objects, player) and three logs kept for the properties below:         *)
(*   writes - one entry per attribute assignment actually performed: the   *)
(*            object iterated (target), the object assigned (obj), the     *)
(*            two segments of the path (name, prop) and the raw value,     *)
(*   trace  - one entry per statement visited by execute_lines,            *)
(*   conds  - the result of each condition evaluated.                      *)
(* A Python exception is carried in st.raised (its class name, "" when     *)
(* none is in flight) until a try/except takes it; errors logs each        *)
(* exception taken, with the handler that took it.  A setter raises before *)
(* it assigns any attribute, so a raise leaves the world unchanged.        *)
(***************************************************************************)

\* raise <kind>
Raise(st, kind) == [st EXCEPT !.raised = kind]

\* except Exception as e: self.engine.log(...)
Caught(st, handler) ==
  IF st.raised = "" THEN st
  ELSE [st EXCEPT !.errors = Append(@, [at |-> handler, what |-> st.raised]),
                  !.raised = ""]

\* obj.<attr> = val, logged
Assign(st, target, h, obj_name, prop_name, attr, val, raw) ==
  LET logged == [st EXCEPT !.writes = Append(@, [target |-> target, obj |-> h,
                                                 name |-> obj_name, prop |-> prop_name,
                                                 value |-> raw])]
  IN IF h = PlayerHandle
     THEN [logged EXCEPT !.player = [@ EXCEPT ![attr] = val]]
     ELSE [logged EXCEPT !.objects = [@ EXCEPT ![h] = [@ EXCEPT ![attr] = val]]]

PlayerFloatAttr(prop_name) ==
  IF prop_name = "Speed" THEN "move_speed"
  ELSE IF prop_name = "JumpForce" THEN "jump_force"
  ELSE IF prop_name = "CameraRotationSpeed" THEN "rotation_speed"
  ELSE IF prop_name = "SpinSpeed" THEN "spin_speed"
  ELSE ""

set_player_property(st, target, obj_name, prop_name, value) ==
  IF ~st.player.exists THEN st
  ELSE Bind(parse_value(value), LAMBDA parsed_value :
       IF PlayerFloatAttr(prop_name) # "" THEN
            IF FloatOf(parsed_value).ok
            THEN Assign(st, target, PlayerHandle, obj_name, prop_name,
                        PlayerFloatAttr(prop_name), FloatOf(parsed_value).n, value)
            ELSE Raise(st, IF parsed_value.kind = "list" THEN "TypeError" ELSE "ValueError")
       ELSE IF prop_name = "Colision" THEN
            Assign(st, target, PlayerHandle, obj_name, prop_name, "collision_enabled",
                   BoolOf(parsed_value), value)
       ELSE st)

VectorAttr(prop_name) ==
  IF prop_name = "Position" THEN "position"
  ELSE IF prop_name = "Rotation" THEN "rotation"
  ELSE IF prop_name = "Scale" THEN "scale"
  ELSE ""

set_gameobject_property(st, target, obj, obj_name, prop_name, value) ==
  Bind(parse_value(value), LAMBDA parsed_value :
  LET triple == parsed_value.kind = "list" /\ Len(parsed_value.items) = 3 IN
  IF VectorAttr(prop_name) # "" THEN
       IF ~triple THEN st
       ELSE Bind([k \in 1..3 |-> PyFloat(parsed_value.items[k])], LAMBDA xyz :
              IF \A k \in 1..3 : xyz[k].ok
              THEN Assign(st, target, obj, obj_name, prop_name, VectorAttr(prop_name),
                          [k \in 1..3 |-> xyz[k].n], value)
              ELSE Raise(st, "ValueError"))
  ELSE IF prop_name = "Color" THEN
       IF ~triple THEN st
       ELSE Bind([k \in 1..3 |-> PyInt(parsed_value.items[k])], LAMBDA rgb :
              IF \A k \in 1..3 : rgb[k].ok
              THEN Assign(st, target, obj, obj_name, prop_name, "color",
                          "#" \o Hex02(rgb[1].n) \o Hex02(rgb[2].n) \o Hex02(rgb[3].n), value)
              ELSE Raise(st, "ValueError"))
  ELSE IF prop_name = "Colision" THEN
       Assign(st, target, obj, obj_name, prop_name, "collision_enabled",
              BoolOf(parsed_value), value)
  ELSE st)

\* the object a write lands on: the `using` object named by the first path
\* segment when it is declared and resolves, the iterated object otherwise
UsingRedirect(st, using_objects, obj, obj_name) ==
  IF obj_name \notin using_objects THEN obj
  ELSE Bind(find_object_by_path(st, "Hierarchy." \o obj_name), LAMBDA target_obj :
         IF target_obj # NoObject THEN target_obj ELSE obj)

\* the guard without the Block sentinel
NameGuardNoBlock(st, obj, obj_name) ==
  obj_name # "Player" /\ obj_name # ObjOf(st, obj).name

\* no guard at all
NameGuardOff(st, obj, obj_name) == FALSE

\* the guard of line 551: TRUE when the write is dropped
NameGuardSkips(st, obj, obj_name) ==
  obj_name # "Player" /\ obj_name # "Block" /\ obj_name # ObjOf(st, obj).name

\* no try/except: the exception goes on to the caller
Unguarded(st) == st

\* the try/except of set_object_property
PropertyBoundary(st) == Caught(st, "GayScript property error")

\* cs is self.current_script: [set |-> FALSE] before the first execution
\* (reading it raises AttributeError), else the `using` table of the
\* document executed last
set_object_property(st, cs, target, property_path, value) ==
  PropertyBoundary(
  Bind(Split(property_path, "."), LAMBDA parts :
  IF Len(parts) # 2 THEN st
  ELSE IF ~cs.set THEN Raise(st, "AttributeError")
  ELSE LET obj_name == parts[1]
           prop_name == parts[2]
       IN Bind(UsingRedirect(st, cs.using_objects, target, obj_name), LAMBDA obj :
          IF NameGuardSkips(st, obj, obj_name) THEN st
          ELSE IF obj_name = "Player" /\ ObjOf(st, obj).is_player /\ st.player.exists
          THEN set_player_property(st, target, obj_name, prop_name, value)
          ELSE set_gameobject_property(st, target, obj, obj_name, prop_name, value))))

(***************************************************************************)
(* GayScriptInterpreter.execute_line / execute_lines / execute_script      *)
(***************************************************************************)

\* line_definitions.get(source, {}).get('value', '')
FieldValue(defs, source) ==
  IF \E i \in 1..Len(defs) : defs[i].id = source
  THEN defs[CHOOSE i \in 1..Len(defs) : defs[i].id = source].value
  ELSE ""

CurrentOf(script_data) == [set |-> TRUE, using_objects |-> script_data.using_objects]

execute_line(st, script_data, line_data, target_obj) ==
  IF line_data.type = "assignment" THEN
       Bind(FieldValue(script_data.line_definitions, line_data.source), LAMBDA field_value :
         IF field_value # ""
         THEN set_object_property(st, CurrentOf(script_data), target_obj,
                                  line_data.property, field_value)
         ELSE st)
  ELSE IF line_data.type = "direct_assignment" THEN
       set_object_property(st, CurrentOf(script_data), target_obj,
                           line_data.property, line_data.value)
  ELSE IF line_data.type = "command" /\ Contains(line_data.command, "=") THEN
       Bind(SplitOnce(line_data.command, "="), LAMBDA lr :
         set_object_property(st, CurrentOf(script_data), target_obj,
                             Strip(lr[1]), Strip(lr[2])))
  ELSE st

RECURSIVE execute_lines(_, _, _, _, _)
execute_lines(st, script_data, lines, target_obj, depth) ==
  IF lines = <<>> \/ st.raised # "" THEN st
  ELSE LET line_data == Head(lines)
           seen == [st EXCEPT !.trace = Append(@, [target |-> target_obj, depth |-> depth,
                                                   stmt |-> line_data])]
           after ==
             IF line_data.type = "if_condition" THEN
                  Bind(evaluate_condition(seen, line_data.condition), LAMBDA condition_result :
                    execute_lines([seen EXCEPT !.conds = Append(@, condition_result)],
                                  script_data,
                                  IF condition_result THEN line_data.then_branch
                                  ELSE line_data.else_branch,
                                  target_obj, depth + 1))
             ELSE execute_line(seen, script_data, line_data, target_obj)
       IN execute_lines(after, script_data, Tail(lines), target_obj, depth)

\* the targets that resolve, in declaration order
RECURSIVE ResolveTargets(_, _)
ResolveTargets(w, target_objects) ==
  IF target_objects = <<>> THEN <<>>
  ELSE LET target_obj == find_object_by_path(w, Head(target_objects)) IN
       (IF target_obj # NoObject THEN <<target_obj>> ELSE <<>>)
         \o ResolveTargets(w, Tail(target_objects))

\* initial values never copied
KeepCurrentValues(defs) == defs

\* field_data['value'] = field_data['initial_value'] for every non-empty one
ApplyInitialValues(defs) ==
  [i \in 1..Len(defs) |->
     IF defs[i].initial_value # "" THEN [defs[i] EXCEPT !.value = defs[i].initial_value]
     ELSE defs[i]]

\* the resolved targets visited last to first
RECURSIVE RunTargetsBackwards(_, _, _)
RunTargetsBackwards(st, script_data, targets) ==
  IF targets = <<>> THEN st
  ELSE RunTargetsBackwards(
         execute_lines(st, script_data, script_data.lines, targets[Len(targets)], 0),
         script_data, SubSeq(targets, 1, Len(targets) - 1))

RECURSIVE RunTargets(_, _, _)
RunTargets(st, script_data, targets) ==
  IF targets = <<>> \/ st.raised # "" THEN st
  ELSE RunTargets(execute_lines(st, script_data, script_data.lines, Head(targets), 0),
                  script_data, Tail(targets))

\* the world before the run, with empty logs
StartRun(w) ==
  [objects |-> w.objects, player |-> w.player, writes |-> <<>>, trace |-> <<>>, conds |-> <<>>,
   raised |-> "", errors |-> <<>>, forwards |-> <<>>]

\* the try/except of execute_script
ExecutionBoundary(st) == Caught(st, "GayScript execution error")

\* initial values applied to a copy that the store never sees
execute_script_on_copy(w, script_data, apply_initial_values) ==
  Bind(ResolveTargets(w, script_data.target_objects), LAMBDA target_objects :
    IF ~script_data.parsed \/ target_objects = <<>>
    THEN [st |-> StartRun(w), doc |-> script_data, targets |-> <<>>]
    ELSE Bind(IF apply_initial_values
              THEN [script_data EXCEPT !.line_definitions = ApplyInitialValues(@)]
              ELSE script_data, LAMBDA applied :
           [st |-> ExecutionBoundary(RunTargets(StartRun(w), applied, target_objects)),
            doc |-> script_data, targets |-> target_objects]))

\* initial values applied whatever apply_initial_values is
execute_script_always_applying(w, script_data, apply_initial_values) ==
  Bind(ResolveTargets(w, script_data.target_objects), LAMBDA target_objects :
    IF ~script_data.parsed \/ target_objects = <<>>
    THEN [st |-> StartRun(w), doc |-> script_data, targets |-> <<>>]
    ELSE Bind([script_data EXCEPT !.line_definitions = ApplyInitialValues(@)],
              LAMBDA applied :
           [st |-> ExecutionBoundary(RunTargets(StartRun(w), applied, target_objects)),
            doc |-> applied, targets |-> target_objects]))

\* result: the execution state after the run (st), the document as the run
\* leaves it (doc), and the targets it ran for
execute_script(w, script_data, apply_initial_values) ==
  Bind(ResolveTargets(w, script_data.target_objects), LAMBDA target_objects :
    IF ~script_data.parsed \/ target_objects = <<>>
    THEN [st |-> StartRun(w), doc |-> script_data, targets |-> <<>>]
    ELSE Bind(IF apply_initial_values
              THEN [script_data EXCEPT !.line_definitions = ApplyInitialValues(@)]
              ELSE script_data, LAMBDA applied :
           [st |-> ExecutionBoundary(RunTargets(StartRun(w), applied, target_objects)),
            doc |-> applied, targets |-> target_objects]))

(***************************************************************************)
(* SceneSerializer                                                         *)
(***************************************************************************)

\* A value read from a scene file where a text is expected: json.load gives
\* a str for a JSON string and None for null.
PyStr(text) == [str |-> TRUE, s |-> text]
PyNone == [str |-> FALSE, s |-> ""]

\* the document under construction appended before it is parsed
LoadIntoKeepingPartial(store, script_content, script_name) ==
  IF script_content.str
  THEN [ok |-> TRUE, scripts |-> Append(store, load_script(script_content.s, script_name))]
  ELSE [ok |-> FALSE,
        scripts |-> Append(store, NewParseState(script_content.s, script_name).script_data)]

\* a text without the header line refused as a parse error
LoadIntoRequiringHeader(store, script_content, script_name) ==
  IF script_content.str /\ Contains(script_content.s, "GameScript")
  THEN [ok |-> TRUE, scripts |-> Append(store, load_script(script_content.s, script_name))]
  ELSE [ok |-> FALSE, scripts |-> store]

\* load_script(script_content, script_name) on the store: the text is
\* parsed and the document appended, True returned; on a value that is not
\* a text line 344 raises, the except clause returns False and the store is
\* as it was
LoadInto(store, script_content, script_name) ==
  IF script_content.str
  THEN [ok |-> TRUE, scripts |-> Append(store, load_script(script_content.s, script_name))]
  ELSE [ok |-> FALSE, scripts |-> store]

RECURSIVE LineValues(_)
LineValues(defs) ==
  IF defs = <<>> THEN <<>>
  ELSE <<[id |-> Head(defs).id, value |-> Head(defs).value,
          initial_value |-> Head(defs).initial_value]>> \o LineValues(Tail(defs))

\* the 'gayscripts' entry of one document
SerializeScript(script) ==
  [name |-> script.name,
   content |-> PyStr(script.content),
   target_objects |-> script.target_objects,
   line_values |-> LineValues(script.line_definitions),
   using_objects |-> script.using_objects]

\* scene_data: the objects (GameObject.to_dict) and the documents
serialize_scene(objs, scripts) ==
  [objects |-> objs,
   gayscripts |-> [i \in 1..Len(scripts) |-> SerializeScript(scripts[i])]]

\* the saved values ignored: the document as re-parsed
RECURSIVE KeepParsedValues(_, _)
KeepParsedValues(defs, line_values) ==
  IF line_values = <<>> THEN defs ELSE KeepParsedValues(defs, Tail(line_values))

\* a saved id the re-parsed document lacks becomes a field of its own
RECURSIVE ApplyOrCreate(_, _)
ApplyOrCreate(defs, line_values) ==
  IF line_values = <<>> THEN defs
  ELSE LET lv == Head(line_values) IN
       ApplyOrCreate(
         IF \E i \in 1..Len(defs) : defs[i].id = lv.id
         THEN [i \in 1..Len(defs) |->
                 IF defs[i].id = lv.id
                 THEN [defs[i] EXCEPT !.value = lv.value, !.initial_value = lv.initial_value]
                 ELSE defs[i]]
         ELSE Append(defs, [id |-> lv.id, label |-> "", value |-> lv.value,
                            type |-> "input_field", initial_value |-> lv.initial_value,
                            target_property |-> ""]),
         Tail(line_values))

\* the saved {value, initial_value} of every id the re-parsed document
\* still has; ids it does not have are skipped
RECURSIVE ApplyLineValues(_, _)
ApplyLineValues(defs, line_values) ==
  IF line_values = <<>> THEN defs
  ELSE LET lv == Head(line_values) IN
       ApplyLineValues(
         [i \in 1..Len(defs) |->
            IF defs[i].id = lv.id
            THEN [defs[i] EXCEPT !.value = lv.value, !.initial_value = lv.initial_value]
            ELSE defs[i]],
         Tail(line_values))

\* loaded_script = scripts[-1] with the saved values and `using` table
DeserializeScript(loaded_script, script_data) ==
  [loaded_script EXCEPT
     !.line_definitions = ApplyLineValues(@, script_data.line_values),
     !.using_objects = script_data.using_objects]

\* the loop over scene_data['gayscripts']: an entry load_script refuses is
\* passed over
RECURSIVE DeserializeScripts(_, _)
DeserializeScripts(store, gayscripts) ==
  IF gayscripts = <<>> THEN store
  ELSE Bind(LoadInto(store, Head(gayscripts).content, Head(gayscripts).name), LAMBDA r :
         DeserializeScripts(
           IF r.ok
           THEN [r.scripts EXCEPT ![Len(r.scripts)] = DeserializeScript(@, Head(gayscripts))]
           ELSE r.scripts,
           Tail(gayscripts)))

\* engine.player after the objects are read: a fresh Player() at the
\* position of the last object flagged is_player, None without one
PlayerOfScene(objs) ==
  IF \E i \in 1..Len(objs) : objs[i].is_player
  THEN LET v == CHOOSE i \in 1..Len(objs) :
                  objs[i].is_player /\ \A j \in (i + 1)..Len(objs) : ~objs[j].is_player
       IN [NewPlayer EXCEPT !.position = objs[v].position, !.visual_object = v]
  ELSE NoPlayer

\* the world and the script store after deserialize_scene
deserialize_scene(scene_data) ==
  [objects |-> scene_data.objects,
   player |-> PlayerOfScene(scene_data.objects),
   scripts |-> DeserializeScripts(<<>>, scene_data.gayscripts)]

(***************************************************************************)
(* Inputs: the script texts typed into the editor, the values typed into   *)
(* inspector fields, the scene file opened, the places the character       *)
(* controller takes the player to.                                         *)
(***************************************************************************)

\* section 8 scenario, braces on lines of their own
DocBraces ==
  "GameScript\nWorking Hierarchy.Block\n{\nBlock.Color = 0,255,0\nif Player Colision == Block\n{\nBlock.Color = 255,0,0\n}\nelse\n{\nBlock.Color = 0,255,0\n}\n}"

\* the same scenario with the conditional on one line
DocOneLine ==
  "GameScript\nWorking Hierarchy.Block\n{\nBlock.Color = 0,255,0\nif Player Colision == Block { Block.Color = 255,0,0 } else { Block.Color = 0,255,0 }\n}"

\* the same scenario in the layout of the built-in templates
DocPlain ==
  "GameScript\nWorking Hierarchy.Block\n{\nBlock.Color = 0,255,0\nif Player Colision == Block\nBlock.Color = 255,0,0\nelse\nBlock.Color = 0,255,0\n}"

\* alias Block, only target another object
DocAlias ==
  "GameScript\nWorking Hierarchy.Green_Cube\n{\nusing Block:\nBlock.Color = 255,0,0\n}"

\* target Block: a write through a declared alias of another object and a
\* write naming an undeclared object
DocRedirect ==
  "GameScript\nWorking Hierarchy.Block\n{\nusing Green_Cube:\nGreen_Cube.Color = 0,0,255\nRed_Cube.Color = 1,2,3\n}"

\* a field bound to the player's speed
DocSpeed ==
  "GameScript\nWorking Hierarchy.Player\n{\nline \"Player Speed\"\nPlayer.Speed = [line]\n}"

\* a conditional testing the flag its own branch writes
DocSelf ==
  "GameScript\nWorking Hierarchy.Block\n{\nif Player Colision == Block\nBlock.Colision = false\n}"

\* two targets, one alias
DocTwo ==
  "GameScript\nWorking Hierarchy.Player\nWorking Hierarchy.Block\n{\nusing Player:\nBlock.Colision = true\nPlayer.Speed = 3\n}"

\* one field bound to the player's jump force
DocBound ==
  "GameScript\nWorking Hierarchy.Player\nWorking Hierarchy.Block\n{\nusing Player:\nline \"Jump Power\"\nline.ask Player.JumpForce\nPlayer.JumpForce = [line]\n}"

\* two targets, the alias Player; the first statement fails in float(), the
\* second is a well-formed sibling
DocFail ==
  "GameScript\nWorking Hierarchy.Player\nWorking Hierarchy.Block\n{\nusing Player:\nPlayer.Speed = fast\nBlock.Color = 1,2,3\n}"

\* the same two statements inside a branch, a third after the conditional
DocNested ==
  "GameScript\nWorking Hierarchy.Player\n{\nif Player Colision == Block\nPlayer.Speed = fast\nPlayer.JumpForce = 4\nelse\nPlayer.JumpForce = 1,2\nPlayer.Speed = 6\n}"

\* the conditional as the templates and the help text write it
DocDotted ==
  "GameScript\nWorking Hierarchy.Block\n{\nBlock.Color = 0,255,0\nif Player.Colision == Block\nBlock.Color = 255,0,0\nelse\nBlock.Color = 0,255,0\n}"

\* a colour with a component above 255 and one below 0
DocGlare == "GameScript\nWorking Hierarchy.Block\n{\nBlock.Color = 300,-5,0\n}"

\* the player's collision switched off while a cube is iterated, no alias
DocPlayerOff == "GameScript\nWorking Hierarchy.Block\n{\nPlayer.Colision = false\n}"

\* a seeded field, and a single target that no scene holds
DocGhost ==
  "GameScript\nWorking Hierarchy.Ghost\n{\nline \"Ghost Speed\"\nGhost.Position = [line]\n}"

\* a text that is no boolean for Colision
DocMaybe == "GameScript\nWorking Hierarchy.Block\n{\nBlock.Colision = maybe\n}"

ScriptTexts ==
  {DocBraces, DocOneLine, DocPlain, DocAlias, DocRedirect, DocSpeed, DocSelf, DocTwo,
   DocBound, DocFail, DocNested, DocMaybe, DocGhost,
   DocDotted, DocGlare, DocPlayerOff}

\* what the user types into an inspector field: a number and a word
FieldInputs == {"7", "fast"}

\* the scene the editor builds at start-up (create_default_scene)
DefaultScene ==
  <<GameObject("Plane", <<0, 0, 0>>, <<1000, 10, 1000>>, "#444444", FALSE),
    GameObject("Red_Cube", <<-200, 50, 0>>, <<100, 100, 100>>, "#FF0000", FALSE),
    GameObject("Green_Cube", <<0, 50, 0>>, <<100, 100, 100>>, "#00FF00", FALSE),
    GameObject("Blue_Cube", <<200, 50, 0>>, <<100, 100, 100>>, "#0000FF", FALSE)>>

\* a scene file: the player object as create_player makes it, standing in
\* an object named Block, and a cube away from both
BlockScene ==
  [objects |->
     <<GameObject("Player", <<0, 100, 0>>, <<80, 200, 80>>, "#FF6B6B", TRUE),
       GameObject("Block", <<0, 50, 0>>, <<100, 100, 100>>, "#808080", FALSE),
       GameObject("Green_Cube", <<300, 50, 0>>, <<100, 100, 100>>, "#00FF00", FALSE)>>,
   gayscripts |-> <<>>]

\* the same scene without an object named Block
NoBlockScene ==
  [objects |->
     <<GameObject("Player", <<0, 100, 0>>, <<80, 200, 80>>, "#FF6B6B", TRUE),
       GameObject("Green_Cube", <<300, 50, 0>>, <<100, 100, 100>>, "#00FF00", FALSE)>>,
   gayscripts |-> <<>>]

\* the first scene saved with collision switched off for Block
QuietScene == [BlockScene EXCEPT !.objects[2].collision_enabled = FALSE]

SceneFiles == {BlockScene, NoBlockScene, QuietScene}

\* where Player.update can take the player: the spawn point of the scenes
\* above and the respawn point (0, 10, 0)
PlayerMoves == {<<0, 100, 0>>, <<0, 1000, 0>>}

\* the script store holds at most this many documents
MaxScripts == 1

(***************************************************************************)
(* State                                                                   *)
(***************************************************************************)

VARIABLES
  objects,         \* engine.objects
  player,          \* engine.player
  game_mode,       \* engine.game_mode
  scripts,         \* script_interpreter.scripts
  current_script,  \* script_interpreter.current_script (ambient)
  saved,           \* the scene file written by save_scene
  runs,            \* log: the execute_script calls since the last outside change
  parser,          \* load_script stepped line by line (SpecParse only)
  call             \* log: what the handler called last did

vars == <<objects, player, game_mode, scripts, current_script, saved, runs, parser, call>>

NoFile == [exists |-> FALSE]

\* no load_script call is being stepped
Idle == [active |-> FALSE]

\* the engine state the handlers thread through their calls
Engine ==
  [objects |-> objects, player |-> player, scripts |-> scripts,
   current_script |-> current_script, runs |-> runs, call |-> call]

SetEngine(e) ==
  /\ objects' = e.objects
  /\ player' = e.player
  /\ scripts' = e.scripts
  /\ current_script' = e.current_script
  /\ runs' = e.runs
  /\ call' = e.call

\* The log of the latest handler call:
\*   op, running  - the handler and engine.game_mode when it was called,
\*   ok, store    - for a load_script call: what it returned and self.scripts
\*                  when it was called,
\*   executed     - the execute_script calls the handler made, in order,
\*   arg          - for a field edit: the document, the field and the value,
\*                  the document as it was and its targets that resolved,
\*   forwards     - the set_object_property calls update_line_field made,
\*   writes       - the attribute assignments those calls performed,
\*   escaped      - an exception left the interpreter.
\*   prev         - for a frame: ranks when it began.
\* One field outlives the call: ranks gives, for each stored document, its
\* place in the execution order of the latest frame, 0 when that frame did
\* not execute it (an edited document keeps its own rank).
NoEdit == [doc |-> 0, field |-> 0, value |-> "", before |-> <<>>, targets |-> <<>>]

NoCall ==
  [op |-> "", running |-> FALSE, ok |-> TRUE, store |-> <<>>, executed |-> <<>>,
   arg |-> NoEdit, forwards |-> <<>>, writes |-> <<>>, escaped |-> FALSE,
   prev |-> <<>>, ranks |-> <<>>, file |-> <<>>]

\* the log at the start of a handler
Called(op) ==
  [NoCall EXCEPT !.op = op, !.running = game_mode, !.ranks = call.ranks]

\* the log keeps the two latest calls
Latest2(seq) == IF Len(seq) > 2 THEN SubSeq(seq, Len(seq) - 1, Len(seq)) ELSE seq

\* self.execute_script(self.scripts[i], apply_initial_values)
ExecuteAt(e, i, apply_initial_values) ==
  Bind(execute_script(e, e.scripts[i], apply_initial_values), LAMBDA r :
    LET script_data == e.scripts[i] IN
    [objects |-> r.st.objects,
     player |-> r.st.player,
     scripts |-> [e.scripts EXCEPT ![i] = r.doc],
     current_script |-> IF script_data.parsed THEN CurrentOf(script_data)
                        ELSE e.current_script,
     call |-> [e.call EXCEPT !.executed =
                 Append(@, [at |-> i, name |-> script_data.name,
                            apply |-> apply_initial_values, errors |-> r.st.errors])],
     runs |-> Latest2(Append(e.runs,
                [name |-> script_data.name, content |-> script_data.content,
                 before |-> script_data, after |-> r.doc,
                 pre |-> [objects |-> e.objects, player |-> e.player],
                 apply |-> apply_initial_values, targets |-> r.targets,
                 writes |-> r.st.writes, trace |-> r.st.trace, conds |-> r.st.conds,
                 errors |-> r.st.errors,
                 world |-> [objects |-> r.st.objects, player |-> r.st.player]]))])

\* the loop given up at the first document that logged an error
RECURSIVE ExecuteUntilError(_, _, _)
ExecuteUntilError(e, i, apply_initial_values) ==
  IF i > Len(e.scripts) THEN e
  ELSE Bind(ExecuteAt(e, i, apply_initial_values), LAMBDA done :
         IF done.call.executed[Len(done.call.executed)].errors # <<>> THEN done
         ELSE ExecuteUntilError(done, i + 1, apply_initial_values))

\* execute_all_scripts / the loop of update_scripts: documents i..end, in
\* store order
RECURSIVE ExecuteFrom(_, _, _)
ExecuteFrom(e, i, apply_initial_values) ==
  IF i > Len(e.scripts) THEN e
  ELSE ExecuteFrom(ExecuteAt(e, i, apply_initial_values), i + 1, apply_initial_values)

Init ==
  /\ objects = DefaultScene
  /\ player = NoPlayer
  /\ game_mode = FALSE
  /\ scripts = <<>>
  /\ current_script = [set |-> FALSE]
  /\ saved = NoFile
  /\ runs = <<>>
  /\ parser = Idle
  /\ call = NoCall

(***************************************************************************)
(* Handlers                                                                *)
(***************************************************************************)

\* create_new_script.save_script: the editor text (Tk appends a newline)
\* is loaded under the name Script_<n+1>
create_new_script(text) ==
  /\ scripts' = LoadInto(scripts, PyStr(text \o "\n"),
                         "Script_" \o ToString(Len(scripts) + 1)).scripts
  /\ runs' = <<>>
  /\ call' = [Called("save_script") EXCEPT !.ranks = Append(@, 0)]
  /\ UNCHANGED <<objects, player, game_mode, current_script, saved, parser>>

save_script(text) ==
  /\ Len(scripts) < MaxScripts
  /\ create_new_script(text)

\* list.index(x): the first element equal to x
IndexOf(seq, x) ==
  CHOOSE k \in 1..Len(seq) : seq[k] = x /\ \A m \in 1..(k - 1) : seq[m] # x

RemoveAt(seq, j) == SubSeq(seq, 1, j - 1) \o SubSeq(seq, j + 1, Len(seq))

\* list.remove(x): drops the first element equal to x
RemoveFirst(seq, x) == RemoveAt(seq, IndexOf(seq, x))

\* edit_script.save_changes on document i: the new text is stored in the
\* document, the document is removed from the store and the text is loaded
\* again under the same name, at the end of the store
edit_script(i, text) ==
  LET content == text \o "\n"
      script_data == [scripts[i] EXCEPT !.content = content]
      edited == [scripts EXCEPT ![i] = script_data]
      j == IndexOf(edited, script_data)
  IN /\ scripts' = LoadInto(RemoveAt(edited, j), PyStr(content), script_data.name).scripts
     /\ runs' = <<>>
     /\ call' = [Called("save_changes") EXCEPT
                   !.ranks = Append(RemoveAt(@, j), call.ranks[j])]
     /\ UNCHANGED <<objects, player, game_mode, current_script, saved, parser>>

\* delete_script
delete_script(i) ==
  /\ scripts' = RemoveFirst(scripts, scripts[i])
  /\ runs' = <<>>
  /\ call' = [Called("delete_script") EXCEPT
                !.ranks = RemoveAt(@, IndexOf(scripts, scripts[i]))]
  /\ UNCHANGED <<objects, player, game_mode, current_script, saved, parser>>

\* load_scene: the file replaces the objects, the player and the store
load_scene(scene_data) ==
  /\ SetEngine(Bind(deserialize_scene(scene_data), LAMBDA d :
       [Engine EXCEPT !.objects = d.objects, !.player = d.player,
                      !.scripts = d.scripts, !.runs = <<>>,
                      !.call = [Called("load_scene") EXCEPT
                                  !.ok = Len(d.scripts) = Len(scene_data.gayscripts),
                                  !.file = scene_data.gayscripts,
                                  !.ranks = [k \in 1..Len(d.scripts) |-> 0]]]))
  /\ UNCHANGED <<game_mode, saved, parser>>

\* the player spawned on entering play mode: a Player() carrying the
\* transform of the first object flagged is_player
SpawnPlayer(objs) ==
  LET v == CHOOSE i \in 1..Len(objs) :
             objs[i].is_player /\ \A j \in 1..(i - 1) : ~objs[j].is_player
  IN [NewPlayer EXCEPT !.position = objs[v].position,
                       !.rotation = objs[v].rotation,
                       !.scale = objs[v].scale,
                       !.visual_object = v]

toggle_game_mode ==
  /\ UNCHANGED <<saved, parser>>
  /\ IF game_mode
     THEN /\ game_mode' = FALSE
          /\ runs' = <<>>
          /\ call' = Called("toggle_game_mode")
          /\ UNCHANGED <<objects, player, scripts, current_script>>
     ELSE IF \E i \in 1..Len(objects) : objects[i].is_player
     THEN /\ game_mode' = TRUE
          /\ SetEngine(ExecuteFrom([Engine EXCEPT !.player = SpawnPlayer(objects),
                                                  !.runs = <<>>,
                                                  !.call = Called("toggle_game_mode")],
                                   1, TRUE))
     ELSE /\ game_mode' = FALSE
          /\ player' = NoPlayer
          /\ runs' = <<>>
          /\ call' = Called("toggle_game_mode")
          /\ UNCHANGED <<objects, scripts, current_script>>

\* Player.check_collision(new_position, collidable_objects)
check_collision(objs, p, new_position) ==
  /\ p.collision_enabled
  /\ \E i \in 1..Len(objs) :
       /\ objs[i].collision_enabled
       /\ ~objs[i].is_player
       /\ BoxesIntersect(PlayerExtent, new_position, p.scale,
                         ObjectExtent, objs[i].position, objs[i].scale)

\* Player.update as far as the scripts can see it: the player stays or is
\* taken to a place where check_collision lets it be, and its visual object
\* follows
MovePlayer(e, new_position) ==
  LET p == [e.player EXCEPT !.position = new_position]
      v == p.visual_object
  IN [e EXCEPT !.player = p,
               !.objects = IF v = NoObject THEN @
                           ELSE [@ EXCEPT ![v] = [@ EXCEPT !.position = p.position,
                                                           !.rotation = p.rotation]],
               !.runs = IF new_position = e.player.position THEN @ ELSE <<>>]

\* the ranks of the frame: document at is the k-th it executed
LogFrame(e) ==
  [e EXCEPT !.call.prev = e.call.ranks,
            !.call.ranks =
              [i \in 1..Len(e.scripts) |->
                 IF \E k \in 1..Len(e.call.executed) : e.call.executed[k].at = i
                 THEN CHOOSE k \in 1..Len(e.call.executed) : e.call.executed[k].at = i
                 ELSE 0]]

\* start_loop.update: one frame, the keys held taking the player to one of
\* moves or nowhere.  Outside play mode, or without a player, no script
\* runs.
frame(moves) ==
  /\ UNCHANGED <<game_mode, saved, parser>>
  /\ IF game_mode /\ player.exists
     THEN \E new_position \in {player.position} \cup moves :
            /\ new_position = player.position
                 \/ ~check_collision(objects, player, new_position)
            /\ SetEngine(LogFrame(ExecuteFrom(
                  MovePlayer([Engine EXCEPT !.call = Called("update")], new_position),
                  1, FALSE)))
     ELSE /\ call' = Called("update")
          /\ UNCHANGED <<objects, player, scripts, current_script, runs>>

update == frame(PlayerMoves)

\* the forward of update_line_field: the new value written to the bound
\* property on every target that resolves
RECURSIVE ForwardField(_, _, _, _, _)
ForwardField(st, cs, target_paths, target_property, value) ==
  IF target_paths = <<>> \/ st.raised # "" THEN st
  ELSE Bind(find_object_by_path(st, Head(target_paths)), LAMBDA target_obj :
         ForwardField(IF target_obj # NoObject /\ target_property # ""
                      THEN set_object_property(
                             [st EXCEPT !.forwards = Append(@, [target |-> target_obj,
                                                               property |-> target_property,
                                                               value |-> value])],
                             cs, target_obj, target_property, value)
                      ELSE st,
                      cs, Tail(target_paths), target_property, value))

\* the forward made whatever engine.game_mode is
update_line_field_any_mode(e, running, i, k, value) ==
  LET script_data == e.scripts[i]
      stored == [e EXCEPT !.scripts[i].line_definitions[k].value = value]
  IN Bind(ForwardField(StartRun(stored), e.current_script, script_data.target_objects,
                       script_data.line_definitions[k].target_property, value),
          LAMBDA st : [stored EXCEPT !.objects = st.objects, !.player = st.player,
                                     !.call.forwards = st.forwards,
                                     !.call.writes = st.writes,
                                     !.call.escaped = st.raised # ""])

\* update_line_field(script_data, field_id, value) on the k-th field of
\* document i
update_line_field(e, running, i, k, value) ==
  LET script_data == e.scripts[i]
      stored == [e EXCEPT !.scripts[i].line_definitions[k].value = value]
  IN IF ~running THEN stored
     ELSE Bind(ForwardField(StartRun(stored), e.current_script, script_data.target_objects,
                            script_data.line_definitions[k].target_property, value),
               LAMBDA st : [stored EXCEPT !.objects = st.objects, !.player = st.player,
                                          !.call.forwards = st.forwards,
                                          !.call.writes = st.writes,
                                          !.call.escaped = st.raised # ""])

\* GayEngine.update_script_field: the KeyRelease handler of a field entry
update_script_field(i, k, value) ==
  /\ SetEngine(Bind(update_line_field(
                      [Engine EXCEPT !.runs = <<>>,
                                     !.call = [Called("update_script_field") EXCEPT
                                                 !.arg = [doc |-> i, field |-> k,
                                                          value |-> value,
                                                          before |-> <<scripts[i]>>,
                                                          targets |-> ResolveTargets(
                                                            Engine,
                                                            scripts[i].target_objects)]]],
                      game_mode, i, k, value),
                    LAMBDA edited : IF game_mode /\ ~edited.call.escaped
                                    THEN ExecuteAt(edited, i, FALSE) ELSE edited))
  /\ UNCHANGED <<game_mode, saved, parser>>

Next ==
  \/ \E text \in ScriptTexts : save_script(text)
  \/ \E scene_data \in SceneFiles : load_scene(scene_data)
  \/ toggle_game_mode
  \/ update
  \/ \E i \in 1..Len(scripts) : \E k \in 1..Len(scripts[i].line_definitions) :
       \E value \in FieldInputs : update_script_field(i, k, value)

Spec == Init /\ [][Next]_vars

(***************************************************************************)
(* load_script stepped one source line at a time, to observe what each     *)
(* line does to the document under construction.  parser holds the loop    *)
(* state (script_data, current_section, if_stack), the lines still to      *)
(* read (rest), and, as a log, the two lines read last (line, prev_line)   *)
(* with the loop state before the last one (before).                       *)
(***************************************************************************)

\* literal assignments after field declarations, later in the body and
\* inside a branch, in the manner of create_collision_example_script
DocClobber ==
  "GameScript\nWorking Hierarchy.Player\n{\nline \"Player Speed\"\nPlayer.Speed = 9\nline \"Cube Tint\"\nBlock.Color = 9,9,9\nBlock.Color = [line]\nBlock.Color = 0,255,0\nif Player Colision == Block\nBlock.Color = 255,0,0\n}"

\* field declarations with every kind of label, well formed or not
DocLabels ==
  "line \"Early Speed\"\nGameScript\nWorking Hierarchy.Player\nline \"Jump Force\"\nline \"Camera Rotation Speed\"\nline \"Rotation Jump\"\nline \"Spin Rotation\"\nline \"Cube Color (r,g,b)\"\nline \"\"\nline \"Jump\nline \"speed jump rotation\""

\* the text of create_collision_example_script
DocExample ==
  "GameScript\nWorking Hierarchy.Player\nWorking Hierarchy.Green_Cube\n{\nusing Player:\nusing Green_Cube:\n\n# Player controls\nline \"Movement Speed\"\nline.ask Player.Speed\nPlayer.Speed = [line]\n\nline \"Jump Power\"\nline.ask Player.JumpForce  \nPlayer.JumpForce = [line]\n\nline \"Camera Rotation Speed\"\nline.ask Player.CameraRotationSpeed\nPlayer.CameraRotationSpeed = [line]\n\n# Cube appearance\nline \"Cube Color (r,g,b)\"\nline.ask Block.Color\nBlock.Color = [line]\n\n# Collision detection\nBlock.Color = 0, 255, 0  # Default green\nif Player.Colision == Green_Cube\n    Block.Color = 255, 0, 0  # Red on collision\nelse\n    Block.Color = 0, 255, 0  # Green otherwise\n}"

\* [line] assigned before any field is declared, after one, without the
\* space after the equals sign, and inside a branch
DocOrphan ==
  "GameScript\nWorking Hierarchy.Block\n{\nBlock.Color = [line]\nline \"Tint\"\nBlock.Color = [line]\nBlock.Scale =[line]\nline \"Size\"\nif Player Colision == Block\nBlock.Scale = [line]\n}"

\* a conditional inside a then-branch, both with an else, both closed by a
\* brace, statements before, between and after
DocTree ==
  "GameScript\nWorking Hierarchy.Block\n{\nif Player Colision == Block\nBlock.Color = 1,2,3\nif Player Colision == Green_Cube\nBlock.Scale = 1,1,1\nelse\nBlock.Scale = 2,2,2\n}\nBlock.Color = 4,5,6\nelse\nBlock.Color = 7,8,9\n}\nBlock.Position = 0,0,0\n}"

\* no header and no target declaration, close braces with nothing open
DocBare == "Block.Color = 1,2,3\n}\n}"

\* a target declaration and a body without the header line
DocHeadless == "Working Hierarchy.Block\n{\nBlock.Color = 1,2,3\n}"

\* statements before the first target declaration, keywords with nothing
\* after them, conditionals never closed, else twice, stray braces
DocRagged ==
  "GameScript\nBlock.Color = 1,2,3\nWorking\n=\n= [line]\nline \"\nline.ask\nusing\nusing:\nif \nif x\nelse\nelse\nif y\n{\n}\n}\n}\n}\nelse"

\* texts no grammar would accept, the empty text among them
MalformedTexts == {"", DocBare, DocHeadless, DocRagged}

ParseTexts ==
  ScriptTexts \cup {DocClobber, DocLabels, DocExample, DocOrphan, DocTree} \cup MalformedTexts

\* load_script is called: on a text the loop starts; on a value that is
\* not a text line 344 raises and the call returns False at once
begin_load(script_content) ==
  /\ ~parser.active
  /\ Len(scripts) < MaxScripts \/ ~script_content.str
  /\ IF script_content.str
     THEN /\ parser' = [active |-> TRUE,
                        state |-> NewParseState(script_content.s,
                                                "Script_" \o ToString(Len(scripts) + 1)),
                        rest |-> Split(script_content.s, "\n"),
                        before |-> NewParseState(script_content.s,
                                                 "Script_" \o ToString(Len(scripts) + 1)),
                        line |-> "", prev_line |-> "", read |-> 0]
          /\ scripts' = scripts
          /\ call' = call
     ELSE /\ parser' = Idle
          /\ scripts' = LoadInto(scripts, script_content,
                                 "Script_" \o ToString(Len(scripts) + 1)).scripts
          /\ call' = [Called("load_script") EXCEPT !.ok = FALSE, !.store = scripts]
  /\ UNCHANGED <<objects, player, game_mode, current_script, saved, runs>>

\* one pass of the loop of load_script
load_line ==
  /\ parser.active
  /\ parser.rest # <<>>
  /\ parser' = [parser EXCEPT !.state = LoadLine(Head(parser.rest), parser.state),
                              !.rest = Tail(parser.rest),
                              !.before = parser.state,
                              !.line = Head(parser.rest),
                              !.prev_line = parser.line,
                              !.read = @ + 1]
  /\ UNCHANGED <<objects, player, game_mode, scripts, current_script, saved, runs, call>>

\* after the last line: parsed = True, self.scripts.append(script_data)
end_load ==
  /\ parser.active
  /\ parser.rest = <<>>
  /\ scripts' = Append(scripts, [parser.state.script_data EXCEPT !.parsed = TRUE])
  /\ parser' = Idle
  /\ call' = [Called("load_script") EXCEPT !.store = scripts, !.ranks = Append(@, 0)]
  /\ UNCHANGED <<objects, player, game_mode, current_script, saved, runs>>

NextParse ==
  \/ \E text \in ParseTexts : begin_load(PyStr(text \o "\n"))
  \/ begin_load(PyNone)
  \/ load_line
  \/ end_load

SpecParse == Init /\ [][NextParse]_vars

(***************************************************************************)
(* Saving the scene and opening it again.                                  *)
(***************************************************************************)

\* fields bound with line.ask, one of them written to two objects
DocAsk ==
  "GameScript\nWorking Hierarchy.Player\nWorking Hierarchy.Block\n{\nusing Player:\nline \"Jump Power\"\nline.ask Player.JumpForce\nPlayer.JumpForce = [line]\nline \"Tint\"\nBlock.Color = 1,2,3\nBlock.Color = [line]\n}"

PersistTexts == {DocSpeed, DocAsk}

\* a scene file written for an earlier text of the document: it holds a
\* value for line_1, which the text still declares, and one for line_2,
\* which it no longer does
StaleScene ==
  [BlockScene EXCEPT !.gayscripts =
     <<[name |-> "Script_1",
        content |-> PyStr(DocSpeed \o "\n"),
        target_objects |-> <<"Hierarchy.Player">>,
        line_values |-> <<[id |-> "line_1", value |-> "7", initial_value |-> "5"],
                          [id |-> "line_2", value |-> "9", initial_value |-> "9"]>>,
        using_objects |-> {}]>>]

\* save_scene: the file holds serialize_scene(self)
save_scene ==
  /\ saved' = [exists |-> TRUE, data |-> serialize_scene(objects, scripts)]
  /\ call' = Called("save_scene")
  /\ UNCHANGED <<objects, player, game_mode, scripts, current_script, runs, parser>>

\* load_scene on the file save_scene wrote
load_saved_scene ==
  /\ saved.exists
  /\ load_scene(saved.data)

\* what is typed into a field before the scene is saved
SavedInputs == {"7"}

NextPersist ==
  \/ \E text \in PersistTexts : save_script(text)
  \/ \E scene_data \in {BlockScene, StaleScene} : load_scene(scene_data)
  \/ save_scene
  \/ load_saved_scene
  \/ toggle_game_mode
  \/ \E i \in 1..Len(scripts) : \E k \in 1..Len(scripts[i].line_definitions) :
       \E value \in SavedInputs : update_script_field(i, k, value)

SpecPersist == Init /\ [][NextPersist]_vars

(***************************************************************************)
(* Several documents in the store: created, edited, deleted, executed      *)
(* frame after frame, their fields edited with good and bad values.        *)
(***************************************************************************)

StoreTexts == {DocFail, DocBound}

\* a scene file without a player object
PlainScene ==
  [objects |->
     <<GameObject("Block", <<0, 50, 0>>, <<100, 100, 100>>, "#808080", FALSE)>>,
   gayscripts |-> <<>>]

\* the script store holds at most this many documents
MaxStore == 2

NextStore ==
  \/ \E text \in StoreTexts : Len(scripts) < MaxStore /\ create_new_script(text)
  \/ \E i \in 1..Len(scripts) : \E text \in StoreTexts : edit_script(i, text)
  \/ \E i \in 1..Len(scripts) : delete_script(i)
  \/ \E scene_data \in {BlockScene, PlainScene} : load_scene(scene_data)
  \/ toggle_game_mode
  \/ frame({})
  \/ \E i \in 1..Len(scripts) : \E k \in 1..Len(scripts[i].line_definitions) :
       update_script_field(i, k, "fast")

SpecStore == Init /\ [][NextStore]_vars

(***************************************************************************)
(* Properties.  Those over runs speak of the execute_script calls logged   *)
(* there: pre and world are the world before and after a call, before and  *)
(* after the document, writes/trace/conds what the call did.               *)
(***************************************************************************)

RunsLogged == {runs[k] : k \in 1..Len(runs)}
WritesOf(r) == {r.writes[k] : k \in 1..Len(r.writes)}
HasText(r, text) == r.content = text \o "\n"

\* the condition texts the evaluator is tried on, in every reachable world
CondTexts ==
  {"Player Colision == Block", "Block Colision == Player", "Block Colision == Block",
   "Player Colision == Green_Cube", "Green_Cube Colision == Block",
   "Green_Cube Colision == Plane", "Player Colision == Ghost", "Ghost Colision == Block",
   "Player.Colision == Block", "Player.Anything Colision == Block",
   "Player Colision == Block.Anything", "Hierarchy.Player Colision == Block",
   "Player Colision == Hierarchy.Block", "  Player   Colision ==   Block  ",
   "Player Colision ==Block", "Player Colision == ", " Colision == Block",
   "Player Colision == Block Colision == Block",
   "Player Colision == Block { Block.Color = 255,0,0 } else { Block.Color = 0,255,0 }",
   "Player == Block", "Player Collision == Block", "Player colision == Block", "true", ""}

Keyword == " Colision == "

\* text is  A Colision == B  with the keyword at position i and nowhere else
HasFormAt(text, i) ==
  /\ i + Len(Keyword) - 1 <= Len(text)
  /\ SubSeq(text, i, i + Len(Keyword) - 1) = Keyword
  /\ \A j \in 1..Len(text) :
       (j + Len(Keyword) - 1 <= Len(text) /\ SubSeq(text, j, j + Len(Keyword) - 1) = Keyword)
         => j = i

\* A with everything from its first dot on dropped
DropSuffix(a) ==
  IF \E k \in 1..Len(a) : SubSeq(a, k, k) = "."
  THEN SubSeq(a, 1, (CHOOSE k \in 1..Len(a) :
                       SubSeq(a, k, k) = "." /\ \A m \in 1..(k - 1) : SubSeq(a, m, m) # ".") - 1)
  ELSE a

\* what the claim says the evaluator returns
ClaimedCondition(w, text) ==
  \E i \in 1..Len(text) :
    /\ HasFormAt(text, i)
    /\ LET a == find_object_by_path(w, Strip(DropSuffix(Strip(SubSeq(text, 1, i - 1)))))
           b == find_object_by_path(w, Strip(SubSeq(text, i + Len(Keyword), Len(text))))
       IN /\ a # NoObject
          /\ b # NoObject
          /\ ObjOf(w, a).collision_enabled
          /\ ObjOf(w, b).collision_enabled
          /\ Intersects(w, a, b)

BraceTexts == {DocBraces, DocOneLine}

BlockOf(w) == find_object_by_path(w, "Hierarchy.Block")

\* C2: after one execution of the scenario document (literal green, then the
\* brace-delimited conditional), with Player and Block resolving and
\* collision-enabled, Block is red when the two intersect and green when
\* they do not.
C2_BraceScenario ==
  \A r \in RunsLogged :
    ( /\ \E text \in BraceTexts : HasText(r, text)
      /\ r.pre.player.exists
      /\ BlockOf(r.pre) # NoObject
      /\ r.targets = <<BlockOf(r.pre)>>
      /\ r.pre.player.collision_enabled
      /\ ObjOf(r.pre, BlockOf(r.pre)).collision_enabled )
    => ObjOf(r.world, BlockOf(r.pre)).color =
         (IF Intersects(r.pre, PlayerHandle, BlockOf(r.pre)) THEN "#ff0000" ELSE "#00ff00")

\* the run is of a document that declares the alias Block and whose only
\* target is another object
AliasBlockOtherTarget(r) ==
  /\ "Block" \in r.before.using_objects
  /\ Len(r.before.target_objects) = 1
  /\ Len(r.targets) = 1
  /\ ObjOf(r.pre, r.targets[1]).name # "Block"

IsBlockColorWrite(stmt) ==
  stmt.type = "direct_assignment" /\ stmt.property = "Block.Color" /\ stmt.value = "255,0,0"

Colors(w) == [h \in 1..Len(w.objects) |-> w.objects[h].color]

\* C3 as stated: with the alias Block declared and another object T the only
\* target, a write addressed to Block.Color while T is iterated is skipped:
\* no colour changes.
C3_WriteSkipped ==
  \A r \in RunsLogged :
    AliasBlockOtherTarget(r) =>
      /\ \A w \in WritesOf(r) : ~(w.name = "Block" /\ w.prop = "Color")
      /\ Colors(r.world) = Colors(r.pre)

\* C3 amended: the write is not skipped.  It sets the colour of the object
\* named Block when there is one and of T itself when there is none, and
\* changes no other colour.
C3_WriteLands ==
  \A r \in RunsLogged :
    (AliasBlockOtherTarget(r) /\ r.before.lines # <<>> /\
       \A k \in 1..Len(r.before.lines) : IsBlockColorWrite(r.before.lines[k]))
    => LET T == r.targets[1]
           hit == IF BlockOf(r.pre) # NoObject THEN BlockOf(r.pre) ELSE T
       IN /\ \A k \in 1..Len(r.writes) :
               r.writes[k] = [target |-> T, obj |-> hit, name |-> "Block",
                              prop |-> "Color", value |-> "255,0,0"]
          /\ Len(r.writes) = Len(r.before.lines)
          /\ Colors(r.world) = [Colors(r.pre) EXCEPT ![hit] = "#ff0000"]

\* the two cases: the write lands on T ...
C3_Witness ==
  \E r \in RunsLogged :
    /\ AliasBlockOtherTarget(r)
    /\ BlockOf(r.pre) = NoObject
    /\ r.writes # <<>>
    /\ ObjOf(r.world, r.targets[1]).color = "#ff0000"

\* ... or on the object named Block
C3_WitnessBlock ==
  \E r \in RunsLogged :
    /\ AliasBlockOtherTarget(r)
    /\ BlockOf(r.pre) # NoObject
    /\ r.writes # <<>>
    /\ ObjOf(r.world, BlockOf(r.pre)).color = "#ff0000"

\* every object a run did not write is as it was before the run
OnlyWrittenChange(r) ==
  /\ \A h \in 1..Len(r.pre.objects) :
       (\A w \in WritesOf(r) : w.obj # h) => r.world.objects[h] = r.pre.objects[h]
  /\ (\A w \in WritesOf(r) : w.obj # PlayerHandle) => r.world.player = r.pre.player

\* C4 as stated: while T is iterated every write changes T only, and a write
\* whose first segment is neither T's name nor a sentinel changes nothing.
C4_OnlyNominalTarget ==
  \A r \in RunsLogged :
    /\ OnlyWrittenChange(r)
    /\ \A w \in WritesOf(r) :
         /\ w.obj = w.target
         /\ w.name \in {"Player", "Block", ObjOf(r.pre, w.target).name}

\* the object a write with first segment name lands on while T is iterated
Landing(r, T, name) ==
  IF name \in r.before.using_objects /\ find_object_by_path(r.pre, name) # NoObject
  THEN find_object_by_path(r.pre, name)
  ELSE T

\* C4 amended: while T is iterated a write changes the object its first
\* segment is a declared alias of, when that alias resolves, and T
\* otherwise; a write whose first segment is neither that object's name nor
\* a sentinel changes nothing; no other object changes.
C4_AliasOrTarget ==
  \A r \in RunsLogged :
    /\ OnlyWrittenChange(r)
    /\ \A w \in WritesOf(r) :
         /\ w.obj = Landing(r, w.target, w.name)
         /\ w.name \in {"Player", "Block", ObjOf(r.pre, w.obj).name}

\* a run for Block wrote another object through an alias and dropped the
\* write that names an undeclared object
C4_Witness ==
  \E r \in RunsLogged :
    /\ HasText(r, DocRedirect)
    /\ r.targets = <<BlockOf(r.pre)>>
    /\ \E w \in WritesOf(r) : w.obj # w.target /\ w.name = "Green_Cube"
    /\ \A w \in WritesOf(r) : w.name # "Red_Cube"
    /\ Len(r.trace) = 2

\* C5: the document targeting the player with  line "Player Speed"  and
\* Player.Speed = [line]  has the field's initial value "5" once parsed, and
\* executing it with apply_initial_values sets the player's speed to 5.0.
C5_SpeedScenario ==
  /\ \A i \in 1..Len(scripts) :
       scripts[i].content = DocSpeed \o "\n" =>
         /\ Len(scripts[i].line_definitions) = 1
         /\ scripts[i].line_definitions[1].initial_value = "5"
  /\ \A r \in RunsLogged :
       (HasText(r, DocSpeed) /\ r.apply /\ r.targets = <<PlayerHandle>>) =>
         /\ r.world.player.move_speed = 500
         /\ r.after.line_definitions[1].value = "5"
         /\ r.writes = <<[target |-> PlayerHandle, obj |-> PlayerHandle, name |-> "Player",
                          prop |-> "Speed", value |-> "5"]>>

\* the scenario ran on entering play mode, after the user had typed another
\* value into the field
C5_Witness ==
  \E r \in RunsLogged :
    /\ HasText(r, DocSpeed)
    /\ r.apply
    /\ r.targets = <<PlayerHandle>>
    /\ r.before.line_definitions[1].value = "7"
    /\ r.pre.player.move_speed = 130
    /\ r.world.player.move_speed = 500

\* the log holds two executions in a row of one document, nothing having
\* happened in between
SameDocTwice ==
  /\ Len(runs) = 2
  /\ runs[1].name = runs[2].name
  /\ runs[1].content = runs[2].content
  /\ runs[2].before = runs[1].after
  /\ runs[1].targets # <<>>

\* C8 as stated: two executions in a row of any document, with no field
\* edit and no outside change in between, perform the same writes.
C8_SameWritesAlways ==
  SameDocTwice => runs[1].writes = runs[2].writes

\* C8 amended: they perform the same writes whenever the second starts from
\* the world the first started from, or every conditional evaluates as it did
\* the first time (documents without conditionals included).
C8_SameWritesSameConds ==
  (SameDocTwice /\ (runs[1].pre = runs[2].pre \/ runs[1].conds = runs[2].conds))
    => runs[1].writes = runs[2].writes

\* twice in a row with a conditional taken the same way, the first of the
\* two having changed the world
C8_Witness ==
  /\ SameDocTwice
  /\ runs[1].conds = <<TRUE>>
  /\ runs[2].conds = <<TRUE>>
  /\ runs[1].writes # <<>>
  /\ runs[1].pre # runs[2].pre

\* the statements execute_lines visited at the root of the tree, with the
\* target each was visited for
RECURSIVE RootVisits(_)
RootVisits(trace) ==
  IF trace = <<>> THEN <<>>
  ELSE (IF Head(trace).depth = 0
        THEN <<[target |-> Head(trace).target, stmt |-> Head(trace).stmt]>>
        ELSE <<>>) \o RootVisits(Tail(trace))

TreeFor(lines, T) == [k \in 1..Len(lines) |-> [target |-> T, stmt |-> lines[k]]]

\* both declared targets resolved
TwoTargets(r) == Len(r.before.target_objects) = 2 /\ Len(r.targets) = 2

\* the whole tree once for the first target, then once for the second
TreeOncePerTarget(r) ==
  /\ r.targets = <<find_object_by_path(r.pre, r.before.target_objects[1]),
                   find_object_by_path(r.pre, r.before.target_objects[2])>>
  /\ RootVisits(r.trace) = TreeFor(r.before.lines, r.targets[1])
                             \o TreeFor(r.before.lines, r.targets[2])
  /\ \A j, k \in 1..Len(r.writes) :
       (j < k /\ r.targets[1] # r.targets[2] /\ r.writes[j].target = r.targets[2])
         => r.writes[k].target = r.targets[2]

\* C10 as stated: with two targets that resolve, the tree runs once for the
\* first and then once for the second, each run writing its own target.
C10_OwnTarget ==
  \A r \in RunsLogged :
    TwoTargets(r) =>
      /\ TreeOncePerTarget(r)
      /\ \A w \in WritesOf(r) : w.obj = w.target

\* C10 amended: the tree runs once for the first target and then once for
\* the second, in declaration order; a run writes its own target except
\* through a declared alias that resolves, which it writes instead.
C10_OncePerTargetInOrder ==
  \A r \in RunsLogged :
    TwoTargets(r) =>
      /\ TreeOncePerTarget(r)
      /\ \A w \in WritesOf(r) : w.obj = Landing(r, w.target, w.name)

\* a run for two targets: the first wrote itself, the second wrote the
\* first through the alias and itself
C10_Witness ==
  \E r \in RunsLogged :
    /\ TwoTargets(r)
    /\ r.targets = <<PlayerHandle, BlockOf(r.pre)>>
    /\ Len(r.before.lines) = 2
    /\ Len(r.trace) = 4
    /\ \E w \in WritesOf(r) : w.target = r.targets[2] /\ w.obj = PlayerHandle
    /\ \E w \in WritesOf(r) : w.target = r.targets[2] /\ w.obj = r.targets[2]
    /\ \E w \in WritesOf(r) : w.target = PlayerHandle /\ w.obj = PlayerHandle

\* the labels of the field declarations read
FieldLabels ==
  {"Early Speed", "Player Speed", "Movement Speed", "Jump Force", "Jump Power",
   "Camera Rotation Speed", "Rotation Jump", "Spin Rotation", "Cube Color (r,g,b)",
   "Cube Tint", "speed jump rotation"}

IsDeclarationOf(line, label) == Strip(line) = "line \"" \o label \o "\""

\* the seed the claim gives a label
ClaimedSeed(label) ==
  IF Contains(label, "Speed") THEN "5"
  ELSE IF Contains(label, "Jump") THEN "10"
  ELSE IF Contains(label, "Rotation") THEN "2"
  ELSE ""

\* load_script has just read parser.line
LineRead == parser.active /\ parser.read >= 1

FieldsBefore == parser.before.script_data.line_definitions
FieldsAfter == parser.state.script_data.line_definitions

\* the line read appended one field: empty value, the claimed seed
AppendedField(label) ==
  /\ Len(FieldsAfter) = Len(FieldsBefore) + 1
  /\ SubSeq(FieldsAfter, 1, Len(FieldsBefore)) = FieldsBefore
  /\ FieldsAfter[Len(FieldsAfter)].label = label
  /\ FieldsAfter[Len(FieldsAfter)].value = ""
  /\ FieldsAfter[Len(FieldsAfter)].initial_value = ClaimedSeed(label)

\* C6 as stated: every line  line "<label>"  appends a field with empty
\* current value and initial value "5" / "10" / "2" / "" by the first of
\* Speed, Jump, Rotation the label contains.
C6_EveryDeclaration ==
  \A label \in FieldLabels :
    (LineRead /\ IsDeclarationOf(parser.line, label)) => AppendedField(label)

\* C6 amended: so does every such line read after a target declaration
\* (Working ...); one read before any target declaration appends nothing.
C6_DeclarationInBody ==
  \A label \in FieldLabels :
    (LineRead /\ IsDeclarationOf(parser.line, label)) =>
      IF parser.before.current_section = "body"
      THEN AppendedField(label)
      ELSE FieldsAfter = FieldsBefore

\* a label holding two of the words was read in the body, after other fields
C6_Witness ==
  /\ LineRead
  /\ IsDeclarationOf(parser.line, "Camera Rotation Speed")
  /\ parser.before.current_section = "body"
  /\ Len(FieldsAfter) = 2
  /\ FieldsAfter[2].initial_value = "5"

\* an  =  line without [line] that is a statement of the body
IsLiteralAssignment(line) ==
  /\ Contains(line, "=")
  /\ ~Contains(line, "[line]")
  /\ ~StartsWith(Strip(line), "if ")
  /\ ~StartsWith(Strip(line), "line")
  /\ ~StartsWith(Strip(line), "#")

\* C7: a literal assignment line changes a field's initial value only when
\* it comes right after that field's declaration and the field has no value
\* yet; anywhere else it leaves every initial value as it was.
C7_LiteralFrame ==
  (LineRead /\ IsLiteralAssignment(parser.line)) =>
    /\ Len(FieldsAfter) = Len(FieldsBefore)
    /\ \A k \in 1..Len(FieldsBefore) :
         FieldsAfter[k].initial_value # FieldsBefore[k].initial_value =>
           /\ k = Len(FieldsBefore)
           /\ StartsWith(Strip(parser.prev_line), "line \"")
           /\ FieldsBefore[k].initial_value = ""

\* the documents the store would give back after a save and a load
Reloaded == deserialize_scene(serialize_scene(objects, scripts)).scripts

SameFields(d1, d2) ==
  /\ Len(d1.line_definitions) = Len(d2.line_definitions)
  /\ \A k \in 1..Len(d1.line_definitions) :
       /\ d1.line_definitions[k].id = d2.line_definitions[k].id
       /\ d1.line_definitions[k].value = d2.line_definitions[k].value
       /\ d1.line_definitions[k].initial_value = d2.line_definitions[k].initial_value
       /\ d1.line_definitions[k].target_property = d2.line_definitions[k].target_property

\* C9: for every store, the documents read back from the serialized store
\* have the same fields (current value, initial value, bound property),
\* targets, aliases and statements, and executed in the same world perform
\* the same writes.
C9_RoundTrip ==
  /\ Len(Reloaded) = Len(scripts)
  /\ \A i \in 1..Len(scripts) :
       /\ SameFields(Reloaded[i], scripts[i])
       /\ Reloaded[i].target_objects = scripts[i].target_objects
       /\ Reloaded[i].using_objects = scripts[i].using_objects
       /\ Reloaded[i].lines = scripts[i].lines
       /\ \A apply \in BOOLEAN :
            execute_script(Engine, Reloaded[i], apply).st.writes
              = execute_script(Engine, scripts[i], apply).st.writes

\* the store was read back from the file during play: the player is new,
\* the field still holds what the user typed, and the document writes it
C9_Witness ==
  /\ game_mode
  /\ saved.exists
  /\ scripts = deserialize_scene(saved.data).scripts
  /\ player.exists
  /\ player.move_speed = 130
  /\ \E i \in 1..Len(scripts) :
       /\ scripts[i].content = DocSpeed \o "\n"
       /\ scripts[i].line_definitions[1].value = "7"
       /\ execute_script(Engine, scripts[i], FALSE).st.writes # <<>>

(***************************************************************************)
(* Failure handling, field edits, frames                                   *)
(***************************************************************************)

\* C11: when load_script returns False the store is exactly what it was
\* when the call was made, and every document in the store is a completely
\* parsed one: its parsed flag is set and it is what parsing every line of
\* its source gives.
C11_AllOrNothing ==
  /\ (call.op = "load_script" /\ ~call.ok) => scripts = call.store
  /\ \A i \in 1..Len(scripts) :
       /\ scripts[i].parsed
       /\ scripts[i] = load_script(scripts[i].content, scripts[i].name)

\* a load has just failed with a document in the store, which is still
\* there alone
C11_Witness ==
  /\ call.op = "load_script"
  /\ ~call.ok
  /\ Len(call.store) = 1
  /\ call.store[1].lines # <<>>
  /\ scripts = call.store

\* the field edit logged in call: the document and the field as they were,
\* the value typed, the targets that resolved
EditedDoc == call.arg.before[1]
EditedField == EditedDoc.line_definitions[call.arg.field]
EditTargets == call.arg.targets
WritesForwarded == {call.writes[k] : k \in 1..Len(call.writes)}

\* the field holds the value typed and no other field changed
ValueStored ==
  scripts[call.arg.doc].line_definitions =
    [EditedDoc.line_definitions EXCEPT ![call.arg.field].value = call.arg.value]

\* C12 as stated: a field edit stores the value and, exactly when the
\* simulation is running and the field has a bound property, writes the
\* value to that property for every target of the document that resolves;
\* otherwise it writes nothing.
C12_WritesEveryTarget ==
  call.op = "update_script_field" =>
    /\ ValueStored
    /\ IF call.running /\ EditedField.target_property # ""
       THEN \A k \in 1..Len(EditTargets) :
              \E w \in WritesForwarded :
                /\ w.target = EditTargets[k]
                /\ w.value = call.arg.value
                /\ w.name \o "." \o w.prop = EditedField.target_property
       ELSE call.writes = <<>>

\* C12 amended: a field edit stores the value and, exactly when the
\* simulation is running and the field has a bound property, calls the
\* property setter once for every target that resolves, in declaration
\* order, with the bound property and the value; the setter writes at most
\* once per call and may write nothing.  Otherwise there is no call and no
\* write.  No exception leaves update_line_field.
C12_ForwardsThroughSetter ==
  call.op = "update_script_field" =>
    /\ ValueStored
    /\ call.forwards =
         (IF call.running /\ EditedField.target_property # ""
          THEN [k \in 1..Len(EditTargets) |->
                  [target |-> EditTargets[k], property |-> EditedField.target_property,
                   value |-> call.arg.value]]
          ELSE <<>>)
    /\ Len(call.writes) <= Len(call.forwards)
    /\ \A w \in WritesForwarded :
         /\ w.value = call.arg.value
         /\ w.name \o "." \o w.prop = EditedField.target_property
         /\ \E k \in 1..Len(EditTargets) : w.target = EditTargets[k]
    /\ ~call.escaped

\* a running edit of a bound field of a document with two targets, both
\* forwards written; the field had another value before
C12_Witness ==
  /\ call.op = "update_script_field"
  /\ call.running
  /\ EditedField.target_property = "Player.JumpForce"
  /\ EditedField.value # call.arg.value
  /\ Len(EditTargets) = 2
  /\ Len(call.forwards) = 2
  /\ Len(call.writes) = 2
  /\ player.jump_force = 700

ExecutedLogged == {call.executed[k] : k \in 1..Len(call.executed)}

\* the handler has just gone through the store executing documents
RanTheStore == call.op \in {"update", "toggle_game_mode"} /\ call.executed # <<>>

\* C13: no exception leaves a runtime operation: every exception raised
\* while a document runs or a field is forwarded is taken by the try/except
\* of set_object_property, none leaves update_line_field, and a handler
\* that goes through the store executes every document after one that
\* failed.
C13_NoEscape ==
  /\ ~call.escaped
  /\ \A x \in ExecutedLogged :
       \A k \in 1..Len(x.errors) : x.errors[k].at = "GayScript property error"
  /\ RanTheStore =>
       \A k \in 1..Len(call.executed) :
         call.executed[k].errors # <<>> =>
           \A i \in (call.executed[k].at + 1)..Len(scripts) :
             \E m \in (k + 1)..Len(call.executed) : call.executed[m].at = i

\* a frame executed a document that failed twice and then the document
\* after it, whose write is in the world
C13_Witness ==
  /\ call.op = "update"
  /\ Len(call.executed) = 2
  /\ Len(call.executed[1].errors) = 2
  /\ call.executed[2].at = 2
  /\ call.executed[2].errors = <<>>
  /\ Len(runs) = 2
  /\ runs[2].writes # <<>>

\* The statements an executor that never gives up visits, checked against
\* a logged trace: w holds what is left of the trace and of the condition
\* results, and ok while the two agree.
RECURSIVE Walk(_, _, _, _)
Walk(w, lines, T, depth) ==
  IF lines = <<>> \/ ~w.ok THEN w
  ELSE IF w.trace = <<>> THEN [w EXCEPT !.ok = FALSE]
  ELSE IF Head(w.trace) # [target |-> T, depth |-> depth, stmt |-> Head(lines)]
       THEN [w EXCEPT !.ok = FALSE]
  ELSE IF Head(lines).type # "if_condition"
       THEN Walk([w EXCEPT !.trace = Tail(@)], Tail(lines), T, depth)
  ELSE IF w.conds = <<>> THEN [w EXCEPT !.ok = FALSE]
  ELSE Walk(Walk([w EXCEPT !.trace = Tail(@), !.conds = Tail(@)],
                 IF Head(w.conds) THEN Head(lines).then_branch ELSE Head(lines).else_branch,
                 T, depth + 1),
            Tail(lines), T, depth)

RECURSIVE WalkTargets(_, _, _)
WalkTargets(w, lines, targets) ==
  IF targets = <<>> THEN w
  ELSE WalkTargets(Walk(w, lines, Head(targets), 0), lines, Tail(targets))

\* the run visited every statement of every list it entered, for every
\* target that resolved, and nothing else
VisitedEverything(r) ==
  LET w == WalkTargets([trace |-> r.trace, conds |-> r.conds, ok |-> TRUE],
                       r.before.lines, r.targets)
  IN w.ok /\ w.trace = <<>> /\ w.conds = <<>>

\* C14: whatever statements fail, a run visits every statement of every
\* statement list it enters (the later siblings of a failed statement
\* included), once for each target that resolved, in order.
C14_SiblingsStillRun ==
  \A r \in RunsLogged : VisitedEverything(r)

\* a run for two targets in which the first statement failed for each and
\* the sibling after it wrote both times
C14_Witness ==
  \E r \in RunsLogged :
    /\ HasText(r, DocFail)
    /\ Len(r.targets) = 2
    /\ Len(r.errors) = 2
    /\ Len(r.trace) = 4
    /\ Len(r.writes) = 2
    /\ r.trace[1].stmt.value = "fast"
    /\ \A w \in WritesOf(r) : w.value = "1,2,3"

\* the value shape each recognised property expects
WellShaped(prop_name, value) ==
  LET pv == parse_value(value) IN
  IF PlayerFloatAttr(prop_name) # "" THEN pv.kind = "num"
  ELSE IF prop_name = "Colision" THEN pv.kind = "bool"
  ELSE IF VectorAttr(prop_name) # "" \/ prop_name = "Color"
       THEN /\ pv.kind = "list"
            /\ Len(pv.items) = 3
            /\ \A k \in 1..3 : PyFloat(pv.items[k]).ok
  ELSE FALSE

\* a literal write of an unknown property or of a value of the wrong shape
Misshapen(stmt) ==
  /\ stmt.type = "direct_assignment"
  /\ LET parts == Split(stmt.property, ".")
     IN Len(parts) = 2 /\ ~WellShaped(parts[2], stmt.value)

\* C15: a run that executes nothing but writes of unknown properties or of
\* values of the wrong shape leaves every property of every object and of
\* the player as it was, and logs the run as returned normally.
C15_MisshapenIgnored ==
  \A r \in RunsLogged :
    (r.trace # <<>> /\ \A k \in 1..Len(r.trace) : Misshapen(r.trace[k].stmt))
    => /\ r.world.objects = r.pre.objects
       /\ r.world.player = r.pre.player

\* C16: of two stored documents that both ran in the frame before, the one
\* that ran first then runs first in this frame too, whatever was loaded,
\* edited or deleted in between.
C16_StableOrder ==
  (call.op = "update" /\ Len(call.prev) = Len(call.ranks))
  => \A i, j \in 1..Len(call.ranks) :
       (/\ call.prev[i] > 0 /\ call.prev[j] > 0
        /\ call.ranks[i] > 0 /\ call.ranks[j] > 0
        /\ call.prev[i] < call.prev[j])
       => call.ranks[i] < call.ranks[j]

\* C17: after a run with apply_initial_values every field with a non-empty
\* initial value holds it, also when no declared target resolved, and
\* every other field holds what it held before.
C17_InitialValuesFirst ==
  \A r \in RunsLogged :
    r.apply =>
      /\ Len(r.after.line_definitions) = Len(r.before.line_definitions)
      /\ \A k \in 1..Len(r.after.line_definitions) :
           r.after.line_definitions[k].value =
             IF r.before.line_definitions[k].initial_value # ""
             THEN r.before.line_definitions[k].initial_value
             ELSE r.before.line_definitions[k].value

\* the last value the file holds for a field id
SavedFor(line_values, id) ==
  LET at == CHOOSE k \in 1..Len(line_values) :
              /\ line_values[k].id = id
              /\ \A m \in (k + 1)..Len(line_values) : line_values[m].id # id
  IN line_values[at]

\* the document is the parse of the entry's text, each of its fields
\* holding the file's value for its id when the file has one
ReadBack(script, entry) ==
  LET parsed == load_script(entry.content.s, entry.name) IN
  /\ script.lines = parsed.lines
  /\ script.target_objects = parsed.target_objects
  /\ script.content = parsed.content
  /\ Len(script.line_definitions) = Len(parsed.line_definitions)
  /\ \A k \in 1..Len(parsed.line_definitions) :
       LET field == parsed.line_definitions[k] IN
       script.line_definitions[k] =
         IF \E m \in 1..Len(entry.line_values) : entry.line_values[m].id = field.id
         THEN [field EXCEPT
                 !.value = SavedFor(entry.line_values, field.id).value,
                 !.initial_value = SavedFor(entry.line_values, field.id).initial_value]
         ELSE field

\* C18: after a scene file is opened every document of the store is the
\* parse of its saved text with the saved value of each field id the parse
\* has; a saved id the parse lacks adds no field and changes no field.
C18_AppliedById ==
  (call.op = "load_scene" /\ call.ok)
  => /\ Len(scripts) = Len(call.file)
     /\ \A i \in 1..Len(scripts) : ReadBack(scripts[i], call.file[i])

\* a file was opened that holds a value for an id of the document, which
\* the field now has, and a value for an id the document lacks
C18_Witness ==
  /\ call.op = "load_scene"
  /\ Len(scripts) = 1
  /\ \E m \in 1..Len(call.file[1].line_values) :
       \A k \in 1..Len(scripts[1].line_definitions) :
         scripts[1].line_definitions[k].id # call.file[1].line_values[m].id
  /\ Len(scripts[1].line_definitions) = 1
  /\ scripts[1].line_definitions[1].value = "7"
  /\ load_script(scripts[1].content, scripts[1].name).line_definitions[1].value = ""

\* C19: a frame of a running engine executes every stored document once,
\* front to back; a frame of an engine that is not running executes none.
C19_EveryTick ==
  call.op = "update"
  => IF call.running
     THEN /\ Len(call.executed) = Len(scripts)
          /\ \A i \in 1..Len(scripts) : call.executed[i].at = i
     ELSE call.executed = <<>>

\* C20: the conditional  if Player.Colision == Block  takes its then-branch
\* exactly when Player and Block both have collision enabled and their
\* boxes intersect, and its else-branch otherwise.
C20_DottedForm ==
  \A r \in RunsLogged :
    (HasText(r, DocDotted) /\ r.targets # <<>>)
    => /\ r.conds = <<ClaimedCondition(r.pre, "Player Colision == Block")>>
       /\ ObjOf(r.world, BlockOf(r.pre)).color =
            IF ClaimedCondition(r.pre, "Player Colision == Block")
            THEN "#ff0000" ELSE "#00ff00"

(***************************************************************************)
(* Field ids, field assignments, the statement tree                        *)
(***************************************************************************)

\* the ids are line_1 .. line_n in this order
Numbered(defs) == \A k \in 1..Len(defs) : defs[k].id = "line_" \o ToString(k)

\* C21: in every document, stored or still being read, the field ids are
\* line_1 .. line_n in the order of the fields, hence pairwise distinct; a
\* line read adds at most one field, at the end, labelled as the line
\* says, and leaves the ids before it as they were.
C21_FieldIds ==
  /\ \A i \in 1..Len(scripts) : Numbered(scripts[i].line_definitions)
  /\ LineRead =>
       /\ Numbered(FieldsAfter)
       /\ \A j, k \in 1..Len(FieldsAfter) : j # k => FieldsAfter[j].id # FieldsAfter[k].id
       /\ Len(FieldsAfter) \in {Len(FieldsBefore), Len(FieldsBefore) + 1}
       /\ \A k \in 1..Len(FieldsBefore) :
            /\ FieldsAfter[k].id = FieldsBefore[k].id
            /\ FieldsAfter[k].label = FieldsBefore[k].label
       /\ Len(FieldsAfter) > Len(FieldsBefore) =>
            IsDeclarationOf(parser.line, FieldsAfter[Len(FieldsAfter)].label)

\* the fourth declaration of a text was just read
C21_Witness ==
  /\ LineRead
  /\ Len(FieldsBefore) = 3
  /\ Len(FieldsAfter) = 4
  /\ FieldsAfter[4].id = "line_4"
  /\ FieldsAfter[4].label = "Cube Color (r,g,b)"

\* the line read was read as part of the body by parse_script_line
BodyLineRead ==
  /\ LineRead
  /\ parser.before.current_section = "body"
  /\ LET line == Strip(parser.line) IN
     /\ line # ""
     /\ line \notin {"GameScript", "{", "}", "else"}
     /\ ~StartsWith(line, "#")
     /\ ~StartsWith(line, "Working")
     /\ ~StartsWith(line, "using")
     /\ ~StartsWith(line, "if ")
     /\ ~StartsWith(line, "line \"")
     /\ ~StartsWith(line, "line.ask")

\* the line has the form  <property> = [line]  with any spacing
AssignsLine(line) ==
  /\ Contains(line, "=")
  /\ Strip(SplitOnce(Strip(line), "=")[2]) = "[line]"

LinesBefore == parser.before.script_data.lines
LinesAfter == parser.state.script_data.lines

\* the line read appended this statement where the open conditionals put it
Appended(stmt) == LinesAfter = AppendStmt(LinesBefore, parser.before.if_stack, stmt)

\* the FieldAssignment of the line read, referencing the field declared last
FieldAssignmentRead ==
  [type |-> "assignment",
   property |-> Strip(SplitOnce(Strip(parser.line), "=")[1]),
   source |-> FieldsBefore[Len(FieldsBefore)].id,
   original_line |-> Strip(parser.line)]

\* every statement of a statement list, those of the branches included
RECURSIVE AllStmts(_)
AllStmts(lines) ==
  IF lines = <<>> THEN {}
  ELSE LET stmt == Head(lines) IN
       {stmt} \cup AllStmts(Tail(lines))
            \cup (IF stmt.type = "if_condition"
                  THEN AllStmts(stmt.then_branch) \cup AllStmts(stmt.else_branch)
                  ELSE {})

\* every FieldAssignment names a field the document has
SourcesExist(script_data) ==
  \A stmt \in AllStmts(script_data.lines) :
    stmt.type = "assignment"
    => \E k \in 1..Len(script_data.line_definitions) :
         script_data.line_definitions[k].id = stmt.source

\* C22 as stated: every body line assigning [line] appends a FieldAssignment
\* to the field declared last, and every FieldAssignment names an existing
\* field.
C22_EveryLineAssigned ==
  /\ \A i \in 1..Len(scripts) : SourcesExist(scripts[i])
  /\ (BodyLineRead /\ AssignsLine(parser.line))
       => FieldsBefore # <<>> /\ Appended(FieldAssignmentRead)

\* C22 amended: a body line holding the text  = [line]  appends a
\* FieldAssignment to the field declared last when a field has been
\* declared and nothing otherwise; a line assigning [line] without that
\* exact text appends a command; every FieldAssignment names an existing
\* field.
C22_AfterADeclaration ==
  /\ \A i \in 1..Len(scripts) : SourcesExist(scripts[i])
  /\ LineRead => SourcesExist(parser.state.script_data)
  /\ (BodyLineRead /\ AssignsLine(parser.line))
       => IF ~Contains(Strip(parser.line), "= [line]")
          THEN Appended([type |-> "command", command |-> Strip(parser.line),
                         original_line |-> Strip(parser.line)])
          ELSE IF FieldsBefore = <<>> THEN LinesAfter = LinesBefore
          ELSE Appended(FieldAssignmentRead)

\* a [line] assignment was read inside a branch after the second field
C22_Witness ==
  /\ BodyLineRead
  /\ AssignsLine(parser.line)
  /\ Len(FieldsBefore) = 2
  /\ parser.before.if_stack # <<>>
  /\ Appended(FieldAssignmentRead)
  /\ FieldAssignmentRead.source = "line_2"

\* how many statements a statement list holds, branches included
RECURSIVE CountStmts(_)
CountStmts(lines) ==
  IF lines = <<>> THEN 0
  ELSE 1 + CountStmts(Tail(lines))
         + (IF Head(lines).type = "if_condition"
            THEN CountStmts(Head(lines).then_branch) + CountStmts(Head(lines).else_branch)
            ELSE 0)

\* how many conditionals of a statement list have seen their else
RECURSIVE CountElse(_)
CountElse(lines) ==
  IF lines = <<>> THEN 0
  ELSE CountElse(Tail(lines))
         + (IF Head(lines).type = "if_condition"
            THEN (IF Head(lines).in_else THEN 1 ELSE 0)
                 + CountElse(Head(lines).then_branch) + CountElse(Head(lines).else_branch)
            ELSE 0)

StackBefore == parser.before.if_stack
StackAfter == parser.state.if_stack

\* list b is list a with one more element at its end
OneMore(a, b) == Len(b) = Len(a) + 1 /\ SubSeq(b, 1, Len(a)) = a

\* the one statement the line read added went to the list the claim names
LandedWhereClaimed ==
  IF StackBefore = <<>> THEN OneMore(LinesBefore, LinesAfter)
  ELSE LET was == NodeAt(LinesBefore, StackBefore)
           is == NodeAt(LinesAfter, StackBefore)
       IN /\ Len(LinesAfter) = Len(LinesBefore)
          /\ is.in_else = was.in_else
          /\ is.condition = was.condition
          /\ IF was.in_else
             THEN OneMore(was.else_branch, is.else_branch) /\ is.then_branch = was.then_branch
             ELSE OneMore(was.then_branch, is.then_branch) /\ is.else_branch = was.else_branch

\* C23: a line read adds at most one statement, to the then-branch of the
\* innermost open conditional, to its else-branch once its else was seen,
\* to the root when none is open; an if line opens the conditional it
\* adds; else marks the innermost open conditional and no other; a close
\* brace closes the innermost open conditional and no other.
C23_StatementTree ==
  LineRead =>
    LET line == Strip(parser.line) IN
    /\ CountStmts(LinesAfter) \in {CountStmts(LinesBefore), CountStmts(LinesBefore) + 1}
    /\ CountStmts(LinesAfter) > CountStmts(LinesBefore) =>
         /\ LandedWhereClaimed
         /\ CountElse(LinesAfter) = CountElse(LinesBefore)
    /\ IF parser.before.current_section = "body" /\ StartsWith(line, "if ")
       THEN /\ OneMore(StackBefore, StackAfter)
            /\ CountStmts(LinesAfter) = CountStmts(LinesBefore) + 1
            /\ NodeAt(LinesAfter, StackAfter).type = "if_condition"
            /\ NodeAt(LinesAfter, StackAfter).then_branch = <<>>
            /\ NodeAt(LinesAfter, StackAfter).else_branch = <<>>
            /\ ~NodeAt(LinesAfter, StackAfter).in_else
       ELSE IF line = "}"
       THEN /\ LinesAfter = LinesBefore
            /\ IF StackBefore = <<>> THEN StackAfter = <<>>
               ELSE OneMore(StackAfter, StackBefore)
       ELSE IF parser.before.current_section = "body" /\ line = "else"
       THEN /\ StackAfter = StackBefore
            /\ CountStmts(LinesAfter) = CountStmts(LinesBefore)
            /\ IF StackBefore = <<>> THEN LinesAfter = LinesBefore
               ELSE /\ NodeAt(LinesAfter, StackBefore).in_else
                    /\ CountElse(LinesAfter) =
                         CountElse(LinesBefore)
                           + (IF NodeAt(LinesBefore, StackBefore).in_else THEN 0 ELSE 1)
       ELSE StackAfter = StackBefore

\* a statement was read after the else of the inner of two open
\* conditionals, the outer one still in its then-branch
C23_Witness ==
  /\ LineRead
  /\ Len(StackBefore) = 2
  /\ CountStmts(LinesAfter) = CountStmts(LinesBefore) + 1
  /\ NodeAt(LinesBefore, StackBefore).in_else
  /\ ~NodeAt(LinesBefore, <<StackBefore[1]>>).in_else
  /\ Len(NodeAt(LinesAfter, StackBefore).else_branch) = 1

(***************************************************************************)
(* Whose alias table, which object, which value                            *)
(***************************************************************************)

\* the writes the forward of the edited field makes when the first path
\* segment is resolved through the alias table of the edited document
OwnTableWrites ==
  ForwardField(StartRun(Engine), CurrentOf(EditedDoc), EditedDoc.target_objects,
               EditedField.target_property, call.arg.value).writes

\* C24: the forward of a field of document D resolves the first segment of
\* the property path through D's own alias table, whichever document was
\* executed last and whether or not any was: it makes the writes that
\* table gives.
C24_OwnAliasTable ==
  (call.op = "update_script_field" /\ call.running) => call.writes = OwnTableWrites

\* target paths as a Working line can give them
PathTexts ==
  {"Hierarchy.Block", "Block", "Hierarchy.Player", "Player", "", "Hierarchy.Ghost",
   "Hierarchy.Green_Cube", "Hierarchy.Hierarchy.Block", "BHierarchy.lock",
   "Scene.Hierarchy.Block"}

\* the path without a leading  Hierarchy.
CanonicalName(path) ==
  IF StartsWith(path, "Hierarchy.") THEN SubSeq(path, Len("Hierarchy.") + 1, Len(path))
  ELSE path

\* what the claim says find_object_by_path returns
ClaimedObject(w, path) ==
  IF CanonicalName(path) = "Player" /\ w.player.exists THEN PlayerHandle
  ELSE IF \E i \in 1..Len(w.objects) : w.objects[i].name = CanonicalName(path)
  THEN CHOOSE i \in 1..Len(w.objects) :
         /\ w.objects[i].name = CanonicalName(path)
         /\ \A j \in 1..(i - 1) : w.objects[j].name # CanonicalName(path)
  ELSE NoObject

\* C25: in every world and for every path, find_object_by_path returns the
\* player singleton when the path without its leading  Hierarchy.  is
\* Player and a player exists, else the first object of that name, else
\* none; an object it returns other than the singleton has that name.
C25_LeadingPrefixOnly ==
  \A path \in PathTexts :
    /\ find_object_by_path(Engine, path) = ClaimedObject(Engine, path)
    /\ find_object_by_path(Engine, path) \notin {NoObject, PlayerHandle}
         => objects[find_object_by_path(Engine, path)].name = CanonicalName(path)

\* raw texts with the typed value the rules of the claim give each
ValueCases ==
  {[text |-> " 7 ", value |-> [kind |-> "num", n |-> 700]],
   [text |-> "-3.5", value |-> [kind |-> "num", n |-> -350]],
   [text |-> "0", value |-> [kind |-> "num", n |-> 0]],
   [text |-> "true", value |-> [kind |-> "bool", b |-> TRUE]],
   [text |-> " True ", value |-> [kind |-> "bool", b |-> TRUE]],
   [text |-> "FALSE", value |-> [kind |-> "bool", b |-> FALSE]],
   [text |-> "1,2", value |-> [kind |-> "list", items |-> <<"1", "2">>]],
   [text |-> " a , b ", value |-> [kind |-> "list", items |-> <<"a", "b">>]],
   [text |-> "true,false", value |-> [kind |-> "list", items |-> <<"true", "false">>]],
   [text |-> "7,", value |-> [kind |-> "list", items |-> <<"7", "">>]],
   [text |-> "0, 255 ,0", value |-> [kind |-> "list", items |-> <<"0", "255", "0">>]],
   [text |-> " fast ", value |-> [kind |-> "str", s |-> "fast"]],
   [text |-> "truly", value |-> [kind |-> "str", s |-> "truly"]],
   [text |-> "", value |-> [kind |-> "str", s |-> ""]]}

\* the rule of the claim that applies to a raw text
ClaimedKind(text) ==
  IF Contains(Strip(text), ",") THEN "list"
  ELSE IF Lower(Strip(text)) \in {"true", "false"} THEN "bool"
  ELSE IF PyFloat(Strip(text)).ok THEN "num"
  ELSE "str"

\* the raw texts the setters were handed in the runs logged and in the
\* latest field edit
TextsSet ==
  {w.value : w \in UNION {WritesOf(r) : r \in RunsLogged}}
    \cup {call.forwards[k].value : k \in 1..Len(call.forwards)}

\* C26: parse_value gives each raw text the typed value the rules give it,
\* the comma rule first: on the texts of the table, and, by kind, on every
\* text a setter was handed.
C26_TypedValue ==
  /\ \A c \in ValueCases : parse_value(c.text) = c.value
  /\ \A text \in TextsSet :
       /\ parse_value(text).kind = ClaimedKind(text)
       /\ parse_value(text).kind = "list" => parse_value(text).items = StripAll(Split(Strip(text), ","))
       /\ parse_value(text).kind = "str" => parse_value(text).s = Strip(text)

\* one run handed the setters a boolean text and a number text
C26_Witness ==
  \E r \in RunsLogged : \E w1, w2 \in WritesOf(r) :
    /\ parse_value(w1.value) = [kind |-> "bool", b |-> TRUE]
    /\ parse_value(w2.value) = [kind |-> "num", n |-> 300]

\* the raw text is a list of three integers, each in 0..255
InRangeTriple(text) ==
  LET pv == parse_value(text) IN
  /\ pv.kind = "list"
  /\ Len(pv.items) = 3
  /\ \A k \in 1..3 : PyInt(pv.items[k]).ok /\ PyInt(pv.items[k]).n \in 0..255

\* the Color writes a run made on object h, in order
ColorWrites(r, h) ==
  SelectSeq(r.writes, LAMBDA w : w.obj = h /\ w.prop = "Color")

\* a colour in the form #rrggbb
SixHexDigits(color) ==
  /\ Len(color) = 7
  /\ SubSeq(color, 1, 1) = "#"
  /\ \A k \in 2..7 : Contains(HexDigits, SubSeq(color, k, k))

\* C27: a run changes the colour of an object only by Color writes of
\* three integers in 0..255, and the colour is then the #rrggbb encoding
\* of the last of them; any other Color value leaves the colour as it was.
C27_ColourInRange ==
  \A r \in RunsLogged : \A h \in 1..Len(r.pre.objects) :
    IF ColorWrites(r, h) = <<>>
    THEN r.world.objects[h].color = r.pre.objects[h].color
    ELSE /\ \A k \in 1..Len(ColorWrites(r, h)) : InRangeTriple(ColorWrites(r, h)[k].value)
         /\ SixHexDigits(r.world.objects[h].color)

\* C28: a run without apply_initial_values leaves the document as it was:
\* statements, target paths, alias table, and every field with its label,
\* value, initial value and bound property.
C28_DocumentUntouched ==
  \A r \in RunsLogged :
    ~r.apply =>
      /\ r.after = r.before
      /\ \A i \in 1..Len(scripts) : scripts[i].name = r.name => scripts[i] = r.before

\* such a run wrote a property from a field whose value is not its
\* initial value
C28_Witness ==
  \E r \in RunsLogged :
    /\ ~r.apply
    /\ r.writes # <<>>
    /\ r.before.line_definitions # <<>>
    /\ r.before.line_definitions[1].value = "7"
    /\ r.before.line_definitions[1].initial_value \notin {"", "7"}

\* C29: load_script accepts every text: it reports success and the store
\* is the store before with one parsed document more, holding the text.
C29_EveryTextLoads ==
  /\ \A text \in ParseTexts :
       LET loaded == LoadInto(scripts, PyStr(text \o "\n"), "Script") IN
       /\ loaded.ok
       /\ OneMore(scripts, loaded.scripts)
       /\ loaded.scripts[Len(loaded.scripts)].parsed
       /\ loaded.scripts[Len(loaded.scripts)].content = text \o "\n"
  /\ (call.op = "load_script" /\ call.ok) =>
       /\ OneMore(call.store, scripts)
       /\ scripts[Len(scripts)].parsed

\* a text without header and target declaration was read line by line to
\* its end and is in the store
C29_Witness ==
  /\ call.op = "load_script"
  /\ call.ok
  /\ Len(scripts) = 1
  /\ scripts[1].content = DocBare \o "\n"
  /\ scripts[1].target_objects = <<>>
  /\ scripts[1].lines = <<>>

\* C30: a run all of whose writes name the player token leaves every
\* object that is not the player as it was, whichever target is iterated
\* and whatever the document aliases.
C30_PlayerPathsSpareObjects ==
  \A r \in RunsLogged :
    (\A w \in WritesOf(r) : w.name = "Player")
    => \A h \in 1..Len(r.pre.objects) :
         ~r.pre.objects[h].is_player => r.world.objects[h] = r.pre.objects[h]
====
